---- MODULE Spec2Model ----
(***************************************************************************)
(* Model of the trip-inference services of Travelogy2:                     *)
(*   backend/apps/trips/ml_services/mode_detector.py          ModeDetector *)
(*   backend/apps/trips/ml_services/advanced_mode_detector.py              *)
(*                                                    AdvancedModeDetector *)
(*   backend/apps/trips/ml_services/purpose_predictor.py  PurposePredictor *)
(*   backend/apps/trips/serializers.py             TripCreateSerializer    *)
(*   backend/apps/trips/views.py     the trip and prediction endpoints     *)
(*                                                                         *)
(* Eight specifications share the module.                                  *)
(*   SegSpec       one run of detect_trip_segments (either detector) over  *)
(*                 a waypoint list that is read one waypoint per loop turn *)
(*   BundleSpec    one AdvancedModeDetector object: construction with      *)
(*                 load_models, train_models statement by statement,       *)
(*                 save_models file by file, predict_mode read by read,    *)
(*                 and a process restart                                   *)
(*   ScoreSpec     the rule-based scorers on one trip record: two calls of *)
(*                 ModeDetector.predict_mode, or one call of               *)
(*                 PurposePredictor.predict_purpose                        *)
(*   EnsembleSpec  the ensemble arithmetic on one feature row, at the      *)
(*                 evaluation inside train_models and inside predict_mode  *)
(*   FeatureSpec   one trip record through the feature loop of             *)
(*                 train_models, through preprocess_data and through the   *)
(*                 serializer's _prepare_trip_data_for_prediction          *)
(*   HistorySpec   the history factor of PurposePredictor on the history   *)
(*                 a caller builds from the user's stored trips            *)
(*   FlowSpec      one request that predicts mode and purpose, on the      *)
(*                 prediction endpoint and on trip creation                *)
(*   TripSpec      interleaved start, create and complete requests of one  *)
(*                 user on the trip table                                  *)
(*                                                                         *)
(* Waypoints lie on one meridian; lat is counted in metres of arc, so the  *)
(* haversine distance of two waypoints is the absolute difference of their *)
(* lat values.  Timestamps are whole seconds.                              *)
(***************************************************************************)
EXTENDS Integers, Sequences, FiniteSets, TLC

VARIABLES
    \* ---- detect_trip_segments ----
    impl,                   \* which class's detect_trip_segments runs
    n_waypoints,            \* len(waypoints)
    min_stop_duration,      \* the parameter
    wps,                    \* waypoints[0 .. i-1], the part of the list read so far
    i,                      \* loop variable of "for i in range(1, len(waypoints))"
    current_segment_start,
    in_stop,
    stop_start_time,
    segments,
    segPc,                  \* "call" | "loop" | "done"
    seg_fields,             \* per returned segment: its 'waypoints' slice and
                            \* its 'predicted_mode' entry
    \* ---- AdvancedModeDetector object, its files, its callers ----
    random_forest,
    xgboost,
    scaler,
    models_loaded,
    disk,                   \* the three joblib files under MODEL_PATH
    enable_ml_training,     \* settings.FEATURE_FLAGS['ENABLE_ML_TRAINING']
    train_calls,            \* number of train_models calls made so far
    train_n,                \* len(training_data) of the latest call
    train_labeled,          \* its trips that have a 'transport_mode' key
    trainPc,                \* position of the train_models call in progress
    report,                 \* what the latest train_models call returned
    pred,                   \* the predict_mode call in progress / its result
    \* ---- rule-based scorers: ModeDetector.predict_mode, PurposePredictor ----
    scorer,                 \* which class's predict method the caller uses
    trip_data,              \* the dictionary passed to it
    scorePc,                \* "first" | "second" | "done"
    returned,               \* what the calls made so far on trip_data returned
    \* ---- ensemble arithmetic of AdvancedModeDetector ----
    ens,                    \* training labels, one feature row's model outputs,
                            \* the labels derived from them
    \* ---- feature building: train_models, preprocess_data, TripCreateSerializer ----
    feature_trip,           \* the trip record
    featPc,                 \* the calls made on it so far
    X,                      \* the rows train_models built from [feature_trip]
    feature_array,          \* what preprocess_data built, before scaling
    prepared,                \* what _prepare_trip_data_for_prediction returned
    \* ---- the history factor of PurposePredictor and the history its callers pass ----
    hist,                    \* the caller, the current trip, the user's stored
                            \* trips, the user_history built from them, the
                            \* factor returned for every purpose
    \* ---- one request that predicts mode and purpose: predict_trip_view, TripCreateSerializer.create ----
    flow,                    \* the request, the dictionaries built from it, the
                            \* predictor calls made and what they returned
    \* ---- the trips of one user and the requests of that user in progress ----
    trip_table,             \* the user's Trip rows, the id being the index
    requests                \* per request: endpoint, position, the trip it
                            \* loaded, its response status

segVars == <<impl, n_waypoints, min_stop_duration, wps, i, current_segment_start,
             in_stop, stop_start_time, segments, segPc, seg_fields>>

bundleVars == <<random_forest, xgboost, scaler, models_loaded, disk,
                enable_ml_training, train_calls, train_n, train_labeled, trainPc, report, pred>>

scoreVars == <<scorer, trip_data, scorePc, returned>>

ensVars == <<ens>>

featVars == <<feature_trip, featPc, X, feature_array, prepared>>

histVars == <<hist>>

flowVars == <<flow>>

tripVars == <<trip_table, requests>>

vars == <<impl, n_waypoints, min_stop_duration, wps, i, current_segment_start,
          in_stop, stop_start_time, segments, segPc, seg_fields,
          random_forest, xgboost, scaler, models_loaded, disk,
          enable_ml_training, train_calls, train_n, train_labeled, trainPc, report, pred,
          scorer, trip_data, scorePc, returned, ens,
          feature_trip, featPc, X, feature_array, prepared,
          hist,
          flow,
          trip_table, requests>>

(***************************************************************************)
(* Bounds                                                                  *)
(***************************************************************************)
\* longest waypoint list
MaxLen == 11

\* at most this many waypoint pairs of a list differ from the plain
\* "1000 m in 100 s" movement step
MaxEvents == 2

\* train_models is called at most this many times
MaxTrainCalls == 2

(***************************************************************************)
(* Part 1.  detect_trip_segments                                           *)
(***************************************************************************)
None == -1

Impls == {"ModeDetector", "AdvancedModeDetector"}

\* default of the min_stop_duration parameter
DefaultMinStopDuration == 300

MinStopChoices == {100, DefaultMinStopDuration}

\* len(waypoints) below which AdvancedModeDetector does not scan
MinWaypointsAdvanced == 10

\* len(waypoints) below which ModeDetector does not scan
MinWaypointsBasic == 2

Lats == {0, 1000}

\* seconds between two consecutive fixes; 0 is a duplicated timestamp
DtChoices == {0, 100, 400}

FirstWaypoint == [lat |-> 0, lng |-> 0, timestamp |-> 0]

Abs(x) == IF x < 0 THEN -x ELSE x

\* _haversine_distance, in metres, for two points of one meridian
Haversine(lat1, lng1, lat2, lng2) == Abs(lat2 - lat1)

\* "speed < 1" with speed = (distance_km / time_diff) * 3600 and
\* distance_km = metres / 1000:  metres * 3600 < 1000 * time_diff
SlowerThan1Kmh(metres, time_diff) == metres * 18 < 5 * time_diff

\* ModeDetector: speed = (distance / time_diff) * 3600 if time_diff > 0 else 0,
\* then "if speed < 1"
BasicIsStop(prev_point, curr_point) ==
    LET distance  == Haversine(prev_point.lat, prev_point.lng,
                               curr_point.lat, curr_point.lng)
        time_diff == curr_point.timestamp - prev_point.timestamp
    IN  IF time_diff > 0 THEN SlowerThan1Kmh(distance, time_diff) ELSE TRUE

\* AdvancedModeDetector: the pair is looked at only "if time_diff_seconds > 0"
AdvancedLooksAt(prev_point, curr_point) ==
    curr_point.timestamp - prev_point.timestamp > 0

AdvancedIsStop(prev_point, curr_point) ==
    SlowerThan1Kmh(Haversine(prev_point.lat, prev_point.lng,
                             curr_point.lat, curr_point.lng),
                   curr_point.timestamp - prev_point.timestamp)

\* the waypoints that may follow prev_point in the list
NextWaypoints(prev_point) ==
    { [lat |-> la, lng |-> 0, timestamp |-> prev_point.timestamp + dt] :
        la \in Lats, dt \in DtChoices }

IsPlainStep(prev_point, curr_point) ==
    /\ curr_point.lat # prev_point.lat
    /\ curr_point.timestamp - prev_point.timestamp = 100

Events(w) == Cardinality({k \in 2..Len(w) : ~IsPlainStep(w[k-1], w[k])})

Segment(s, e) == [start_idx |-> s, end_idx |-> e]

\* waypoints[from:stop]
Slice(from, stop) == [from |-> from, stop |-> stop]

\* the entries of a segment dictionary next to its two indices.  ModeDetector
\* sets no 'predicted_mode' key; AdvancedModeDetector stores None in the
\* segment of the short circuit and the return value of _predict_segment_mode
\* in every segment it appends
SegmentFields(from, stop, classified) ==
    [waypoints |-> Slice(from, stop),
     predicted_mode |-> IF impl = "ModeDetector" THEN "unset"
                        ELSE IF classified THEN "predicted" ELSE "None"]

\* the richer segmenter guarding its scan with the threshold of the basic one
ShortCircuits_Mutant == n_waypoints < MinWaypointsBasic

\* the guard in front of the scan
ShortCircuits ==
    IF impl = "ModeDetector" THEN n_waypoints < MinWaypointsBasic
                             ELSE n_waypoints < MinWaypointsAdvanced

ShortCircuitResult ==
    IF impl = "ModeDetector" THEN <<>>
                             ELSE <<Segment(0, n_waypoints - 1)>>

\* 'waypoints': waypoints, 'predicted_mode': None
ShortCircuitFields ==
    IF impl = "ModeDetector" THEN <<>>
                             ELSE <<SegmentFields(0, n_waypoints, FALSE)>>

DetectCall ==
    /\ segPc = "call"
    /\ IF ShortCircuits
         THEN /\ segments' = ShortCircuitResult
              /\ seg_fields' = ShortCircuitFields
              /\ segPc' = "done"
         ELSE /\ segments' = <<>>
              /\ seg_fields' = <<>>
              /\ segPc' = "loop"
    /\ UNCHANGED <<impl, n_waypoints, min_stop_duration, wps, i,
                   current_segment_start, in_stop, stop_start_time>>

\* the guard of the append at a split off by one
SplitEmits_Mutant(start, idx) == start < idx - 2

\* "if current_segment_start < i - 1" in front of the append at a split
SplitEmits(start, idx) == start < idx - 1

\* "if current_segment_start < len(waypoints) - 1" in front of the final append
FinalEmits(start, len) == start < len - 1

\* the loop body measuring the stop up to curr_point
LoopBody_Mutant(prev_point, curr_point) ==
    LET looked  == impl = "ModeDetector" \/ AdvancedLooksAt(prev_point, curr_point)
        isStop  == IF impl = "ModeDetector"
                     THEN BasicIsStop(prev_point, curr_point)
                     ELSE AdvancedIsStop(prev_point, curr_point)
        stop_duration == curr_point.timestamp - stop_start_time
    IN  IF ~looked
          THEN UNCHANGED <<current_segment_start, in_stop, stop_start_time, segments>>
          ELSE IF isStop
            THEN /\ in_stop' = TRUE
                 /\ stop_start_time' = IF in_stop THEN stop_start_time
                                                  ELSE prev_point.timestamp
                 /\ UNCHANGED <<current_segment_start, segments>>
            ELSE IF in_stop
              THEN /\ IF stop_duration >= min_stop_duration
                        THEN /\ segments' =
                                  IF SplitEmits(current_segment_start, i)
                                    THEN Append(segments,
                                                Segment(current_segment_start, i - 1))
                                    ELSE segments
                             /\ current_segment_start' = i
                        ELSE UNCHANGED <<segments, current_segment_start>>
                   /\ in_stop' = FALSE
                   /\ stop_start_time' = None
              ELSE UNCHANGED <<current_segment_start, in_stop, stop_start_time,
                               segments>>

\* one turn of the loop body, on waypoints[i-1] and waypoints[i]
LoopBody(prev_point, curr_point) ==
    LET looked  == impl = "ModeDetector" \/ AdvancedLooksAt(prev_point, curr_point)
        isStop  == IF impl = "ModeDetector"
                     THEN BasicIsStop(prev_point, curr_point)
                     ELSE AdvancedIsStop(prev_point, curr_point)
        stop_duration == prev_point.timestamp - stop_start_time
    IN  IF ~looked
          THEN UNCHANGED <<current_segment_start, in_stop, stop_start_time, segments>>
          ELSE IF isStop
            THEN /\ in_stop' = TRUE
                 /\ stop_start_time' = IF in_stop THEN stop_start_time
                                                  ELSE prev_point.timestamp
                 /\ UNCHANGED <<current_segment_start, segments>>
            ELSE IF in_stop
              THEN /\ IF stop_duration >= min_stop_duration
                        THEN /\ segments' =
                                  IF SplitEmits(current_segment_start, i)
                                    THEN Append(segments,
                                                Segment(current_segment_start, i - 1))
                                    ELSE segments
                             /\ current_segment_start' = i
                        ELSE UNCHANGED <<segments, current_segment_start>>
                   /\ in_stop' = FALSE
                   /\ stop_start_time' = None
              ELSE UNCHANGED <<current_segment_start, in_stop, stop_start_time,
                               segments>>

LoopStep ==
    /\ segPc = "loop"
    /\ i < n_waypoints
    /\ \E curr_point \in NextWaypoints(wps[i]) :
         /\ Events(Append(wps, curr_point)) <= MaxEvents
         /\ wps' = Append(wps, curr_point)
         /\ LoopBody(wps[i], curr_point)
    /\ seg_fields' = IF Len(segments') > Len(segments)
                       THEN Append(seg_fields,
                                   SegmentFields(current_segment_start, i, TRUE))
                       ELSE seg_fields
    /\ i' = i + 1
    /\ UNCHANGED <<impl, n_waypoints, min_stop_duration, segPc>>

\* "# Add final segment"
FinalSegment ==
    /\ segPc = "loop"
    /\ i >= n_waypoints
    /\ segments' = IF FinalEmits(current_segment_start, n_waypoints)
                     THEN Append(segments,
                                 Segment(current_segment_start, n_waypoints - 1))
                     ELSE segments
    /\ seg_fields' = IF FinalEmits(current_segment_start, n_waypoints)
                       THEN Append(seg_fields,
                                   SegmentFields(current_segment_start,
                                                 n_waypoints, TRUE))
                       ELSE seg_fields
    /\ segPc' = "done"
    /\ UNCHANGED <<impl, n_waypoints, min_stop_duration, wps, i,
                   current_segment_start, in_stop, stop_start_time>>

SegNext ==
    \/ (DetectCall /\ UNCHANGED <<bundleVars, scoreVars, ensVars, featVars, histVars, flowVars, tripVars>>)
    \/ (LoopStep /\ UNCHANGED <<bundleVars, scoreVars, ensVars, featVars, histVars, flowVars, tripVars>>)
    \/ (FinalSegment /\ UNCHANGED <<bundleVars, scoreVars, ensVars, featVars, histVars, flowVars, tripVars>>)

(***************************************************************************)
(* Part 2.  AdvancedModeDetector: bundle, files, training, prediction      *)
(***************************************************************************)
\* A Python object held in random_forest / xgboost / scaler or pickled in a
\* file.  made_by is the train_models call that constructed it; 0 stands for
\* "before this model's first train_models call" (an artifact left by an
\* earlier process, or an estimator constructed by __init__ / load_models).
Obj(made_by, fitted) == [made_by |-> made_by, fitted |-> fitted]

\* Python None
NoneObj == [made_by |-> None, fitted |-> FALSE]

\* what a file path can hold: nothing, bytes joblib.load rejects, a pickled
\* object
Absent == [state |-> "absent", obj |-> NoneObj]

Corrupt == [state |-> "corrupt", obj |-> NoneObj]

Pickled(o) == [state |-> "ok", obj |-> o]

\* an artifact file written by an earlier process
OldArtifact == Pickled(Obj(0, TRUE))

Files == {"rf", "xgb", "scaler"}

DiskStates == [Files -> {Absent, Corrupt, OldArtifact}]

\* os.path.exists(path)
Exists(f) == f.state # "absent"

\* joblib.load(path) returns instead of raising
Readable(f) == f.state = "ok"

\* "if len(training_data) < 50"
MinTrainingSamples == 50

SampleCounts == {0, 10, 49, 50, 60}

\* Option values of a trip record field: Null is a key present with value
\* None, Some(v) a number
Null == <<>>

Some(v) == <<v>>

IsNull(x) == x = Null

TripRecords ==
    { [distance_km |-> Some(5), duration_minutes |-> Some(10)],
      [distance_km |-> Some(5), duration_minutes |-> Some(0)],
      [distance_km |-> Some(5), duration_minutes |-> Null] }

NoTrip == [distance_km |-> Null, duration_minutes |-> Null]

\* ModeDetector.predict_mode compares and divides the two fields without a
\* None test: a None in either raises TypeError
BaseDetectorRaises(trip) ==
    IsNull(trip.distance_km) \/ IsNull(trip.duration_minutes)

\* preprocess_data: "features['duration_minutes'] > 0" and the division raise
\* on None inside the method's own try block
FeatureStepRaises(trip) ==
    \/ IsNull(trip.duration_minutes)
    \/ (~IsNull(trip.duration_minutes) /\ trip.duration_minutes[1] > 0
          /\ IsNull(trip.distance_km))

NoReport == [status |-> "none", message |-> "none", models_saved |-> FALSE]

SkippedDisabled ==
    [status |-> "skipped", message |-> "ML training disabled in settings",
     models_saved |-> FALSE]

ErrorNotEnough ==
    [status |-> "error",
     message |-> "Not enough training data (min 50 samples required)",
     models_saved |-> FALSE]

ErrorRaised == [status |-> "error", message |-> "str(e)", models_saved |-> FALSE]

Success == [status |-> "success", message |-> "none", models_saved |-> TRUE]

NoResult ==
    [outcome |-> "none", source |-> "none", detail |-> "none",
     model_type |-> "none", scaler_of |-> None, rf_of |-> None, xgb_of |-> None]

IdlePred ==
    [pc |-> "idle", trip |-> NoTrip, features |-> "none", scaled_by |-> None,
     rf_proba |-> None, xgb_proba |-> None, result |-> NoResult]

\* the state __init__ sets up before it calls load_models
Constructed ==
    [random_forest |-> NoneObj, xgboost |-> NoneObj,
     scaler |-> Obj(0, FALSE), models_loaded |-> FALSE]

\* load_models setting models_loaded before the three loads instead of after
LoadModels_Mutant(d) ==
    IF Exists(d["rf"]) /\ Exists(d["xgb"]) /\ Exists(d["scaler"])
      THEN IF ~Readable(d["rf"])
             THEN [Constructed EXCEPT !.models_loaded = TRUE]
           ELSE IF ~Readable(d["xgb"])
             THEN [Constructed EXCEPT !.random_forest = d["rf"].obj,
                                      !.models_loaded = TRUE]
           ELSE IF ~Readable(d["scaler"])
             THEN [Constructed EXCEPT !.random_forest = d["rf"].obj,
                                      !.xgboost = d["xgb"].obj,
                                      !.models_loaded = TRUE]
           ELSE [random_forest |-> d["rf"].obj, xgboost |-> d["xgb"].obj,
                 scaler |-> d["scaler"].obj, models_loaded |-> TRUE]
      ELSE [Constructed EXCEPT !.random_forest = Obj(0, FALSE),
                               !.xgboost = Obj(0, FALSE)]

\* load_models on the files d, started from the state __init__ set up
LoadModels(d) ==
    IF Exists(d["rf"]) /\ Exists(d["xgb"]) /\ Exists(d["scaler"])
      THEN IF ~Readable(d["rf"])
             THEN Constructed
           ELSE IF ~Readable(d["xgb"])
             THEN [Constructed EXCEPT !.random_forest = d["rf"].obj]
           ELSE IF ~Readable(d["scaler"])
             THEN [Constructed EXCEPT !.random_forest = d["rf"].obj,
                                      !.xgboost = d["xgb"].obj]
           ELSE [random_forest |-> d["rf"].obj, xgboost |-> d["xgb"].obj,
                 scaler |-> d["scaler"].obj, models_loaded |-> TRUE]
      ELSE [Constructed EXCEPT !.random_forest = Obj(0, FALSE),
                               !.xgboost = Obj(0, FALSE)]

\* the values the scorer variables keep while another specification runs
NoTripData ==
    [keys |-> {}, distance_km |-> Null, duration_minutes |-> Null,
     time_of_day |-> Null, start_time |-> Null, dest_address |-> Null,
     transport_mode |-> Null, dest_lat |-> 0, user_history |-> <<>>]

ScoreIdle ==
    /\ scorer = "ModeDetector"
    /\ trip_data = NoTripData
    /\ scorePc = "done"
    /\ returned = <<>>

NoEnsembleResult ==
    [source |-> "none", predicted_mode |-> "none", confidence |-> 0,
     mode_probabilities |-> <<>>]

IdleEns ==
    [pc |-> "idle", classes_ |-> <<>>, rf_proba |-> <<>>, xgb_proba |-> <<>>,
     ensemble_prediction |-> "none", result |-> NoEnsembleResult]

EnsIdle == ens = IdleEns

\* a trip record without any key
NoFeatureTrip ==
    [keys |-> {}, distance_km |-> Null, duration_minutes |-> Null,
     start_time |-> Null, time_of_day |-> Null, waypoints |-> Null,
     weather |-> Null, route_type |-> Null, transport_mode |-> Null]

FeatIdle ==
    /\ feature_trip = NoFeatureTrip
    /\ featPc = {}
    /\ X = <<>>
    /\ feature_array = Null
    /\ prepared = Null

\* the values the variables of the later parts keep while one of the first
\* four specifications runs
IdleHist ==
    [pc |-> "idle", caller |-> "none", start_hour |-> 0, dest_lat |-> 0,
     stored |-> <<>>, user_history |-> <<>>, factor |-> <<>>]

HistIdle == hist = IdleHist

IdleFlow ==
    [path |-> "none", pc |-> "idle", given_mode |-> Null, given_purpose |-> Null,
     distance_km |-> Null, duration_minutes |-> Null, trip_data |-> Null,
     purpose_data |-> Null, mode |-> Null, purpose |-> Null, calls |-> <<>>,
     saved |-> Null]

FlowIdle == flow = IdleFlow

\* most requests of the user that are in progress together
MaxRequests == 3

Requests == 1..MaxRequests

IdleRequest == [endpoint |-> "none", pc |-> "done", trip |-> 0, response |-> 0]

TripIdle ==
    /\ trip_table = <<>>
    /\ requests = [r \in Requests |-> IdleRequest]

ServicesIdle ==
    /\ FeatIdle
    /\ HistIdle
    /\ FlowIdle
    /\ TripIdle

\* the values the detector variables keep while SegSpec runs
BundleIdle ==
    /\ disk = [f \in Files |-> Absent]
    /\ enable_ml_training = FALSE
    /\ random_forest = LoadModels(disk).random_forest
    /\ xgboost = LoadModels(disk).xgboost
    /\ scaler = LoadModels(disk).scaler
    /\ models_loaded = LoadModels(disk).models_loaded
    /\ train_calls = 0
    /\ train_n = 0
    /\ train_labeled = 0
    /\ trainPc = "idle"
    /\ report = NoReport
    /\ pred = IdlePred

\* the state at the call of detect_trip_segments
SegInit ==
    /\ BundleIdle
    /\ ScoreIdle
    /\ EnsIdle
    /\ ServicesIdle
    /\ impl \in Impls
    /\ n_waypoints \in 0..MaxLen
    /\ min_stop_duration \in MinStopChoices
    /\ wps = IF n_waypoints = 0 THEN <<>> ELSE <<FirstWaypoint>>
    /\ i = 1
    /\ current_segment_start = 0
    /\ in_stop = FALSE
    /\ stop_start_time = None
    /\ segments = <<>>
    /\ segPc = "call"
    /\ seg_fields = <<>>

\* the values the segmentation variables keep while BundleSpec runs
SegIdle ==
    /\ impl = "AdvancedModeDetector"
    /\ n_waypoints = 0
    /\ min_stop_duration = DefaultMinStopDuration
    /\ wps = <<>>
    /\ i = 1
    /\ current_segment_start = 0
    /\ in_stop = FALSE
    /\ stop_start_time = None
    /\ segments = <<>>
    /\ segPc = "done"
    /\ seg_fields = <<>>

BundleInit ==
    /\ SegIdle
    /\ ScoreIdle
    /\ EnsIdle
    /\ ServicesIdle
    /\ disk \in DiskStates
    /\ enable_ml_training \in BOOLEAN
    /\ random_forest = LoadModels(disk).random_forest
    /\ xgboost = LoadModels(disk).xgboost
    /\ scaler = LoadModels(disk).scaler
    /\ models_loaded = LoadModels(disk).models_loaded
    /\ train_calls = 0
    /\ train_n = 0
    /\ train_labeled = 0
    /\ trainPc = "idle"
    /\ report = NoReport
    /\ pred = IdlePred

\* the process dies and a new one constructs the detector again
Restart ==
    /\ random_forest' = LoadModels(disk).random_forest
    /\ xgboost' = LoadModels(disk).xgboost
    /\ scaler' = LoadModels(disk).scaler
    /\ models_loaded' = LoadModels(disk).models_loaded
    /\ trainPc' = "idle"
    /\ report' = NoReport
    /\ pred' = IdlePred
    /\ UNCHANGED <<disk, enable_ml_training, train_calls, train_n, train_labeled>>

(* ---- train_models ---- *)
\* the sample test with a mistyped threshold
NotEnoughData_Mutant(n) == n < 5

\* "if not training_data or len(training_data) < 50"
NotEnoughData(n) == n < MinTrainingSamples

\* the trips of a training set of n that carry a label: all of them, or 49
LabeledCounts(n) == {k \in {49, n} : k <= n}

TrainCall ==
    /\ trainPc = "idle"
    /\ train_calls < MaxTrainCalls
    /\ \E n \in SampleCounts :
         /\ train_n' = n
         /\ train_labeled' \in LabeledCounts(n)
         /\ IF ~enable_ml_training
              THEN report' = SkippedDisabled /\ trainPc' = "idle"
            ELSE IF NotEnoughData(n)
              THEN report' = ErrorNotEnough /\ trainPc' = "idle"
            ELSE report' = NoReport /\ trainPc' = "split"
    /\ train_calls' = train_calls + 1
    /\ UNCHANGED <<random_forest, xgboost, scaler, models_loaded, disk,
                   enable_ml_training, pred>>

\* feature loop over the labeled trips, np.array, train_test_split
TrainSplit ==
    /\ trainPc = "split"
    /\ trainPc' = "scaler_new"
    /\ UNCHANGED <<random_forest, xgboost, scaler, models_loaded, disk,
                   enable_ml_training, train_calls, train_n, train_labeled, report, pred>>

\* self.scaler = StandardScaler()
TrainScalerNew ==
    /\ trainPc = "scaler_new"
    /\ scaler' = Obj(train_calls, FALSE)
    /\ trainPc' = "scaler_fit"
    /\ UNCHANGED <<random_forest, xgboost, models_loaded, disk,
                   enable_ml_training, train_calls, train_n, train_labeled, report, pred>>

\* self.scaler.fit_transform(X_train); self.scaler.transform(X_test)
TrainScalerFit ==
    /\ trainPc = "scaler_fit"
    /\ scaler' = [scaler EXCEPT !.fitted = TRUE]
    /\ trainPc' = "rf_new"
    /\ UNCHANGED <<random_forest, xgboost, models_loaded, disk,
                   enable_ml_training, train_calls, train_n, train_labeled, report, pred>>

\* self.random_forest = RandomForestClassifier(...)
TrainRfNew ==
    /\ trainPc = "rf_new"
    /\ random_forest' = Obj(train_calls, FALSE)
    /\ trainPc' = "rf_fit"
    /\ UNCHANGED <<xgboost, scaler, models_loaded, disk,
                   enable_ml_training, train_calls, train_n, train_labeled, report, pred>>

\* self.random_forest.fit(X_train, y_train)
TrainRfFit ==
    /\ trainPc = "rf_fit"
    /\ random_forest' = [random_forest EXCEPT !.fitted = TRUE]
    /\ trainPc' = "xgb_new"
    /\ UNCHANGED <<xgboost, scaler, models_loaded, disk,
                   enable_ml_training, train_calls, train_n, train_labeled, report, pred>>

\* self.xgboost = xgb.XGBClassifier(...)
TrainXgbNew ==
    /\ trainPc = "xgb_new"
    /\ xgboost' = Obj(train_calls, FALSE)
    /\ trainPc' = "xgb_fit"
    /\ UNCHANGED <<random_forest, scaler, models_loaded, disk,
                   enable_ml_training, train_calls, train_n, train_labeled, report, pred>>

\* self.xgboost.fit(X_train, y_train)
TrainXgbFit ==
    /\ trainPc = "xgb_fit"
    /\ xgboost' = [xgboost EXCEPT !.fitted = TRUE]
    /\ trainPc' = "eval"
    /\ UNCHANGED <<random_forest, scaler, models_loaded, disk,
                   enable_ml_training, train_calls, train_n, train_labeled, report, pred>>

\* accuracy, reports, ensemble evaluation, feature importance
TrainEval ==
    /\ trainPc = "eval"
    /\ trainPc' = "mark"
    /\ UNCHANGED <<random_forest, xgboost, scaler, models_loaded, disk,
                   enable_ml_training, train_calls, train_n, train_labeled, report, pred>>

\* self.models_loaded = True
TrainMark ==
    /\ trainPc = "mark"
    /\ models_loaded' = TRUE
    /\ trainPc' = "save_check"
    /\ UNCHANGED <<random_forest, xgboost, scaler, disk,
                   enable_ml_training, train_calls, train_n, train_labeled, report, pred>>

\* the statements of train_models that can raise into its except clause
RaisingSteps == {"split", "scaler_fit", "rf_fit", "xgb_fit", "eval"}

\* "except Exception as e: return {'status': 'error', 'message': str(e)}"
TrainRaise ==
    /\ trainPc \in RaisingSteps
    /\ report' = ErrorRaised
    /\ trainPc' = "idle"
    /\ UNCHANGED <<random_forest, xgboost, scaler, models_loaded, disk,
                   enable_ml_training, train_calls, train_n, train_labeled, pred>>

(* ---- save_models, called from train_models; its return value is dropped ---- *)
\* "if not hasattr(self.random_forest, 'classes_') or not hasattr(self.xgboost, 'classes_')"
SaveCheck ==
    /\ trainPc = "save_check"
    /\ trainPc' = IF ~random_forest.fitted \/ ~xgboost.fitted
                    THEN "return" ELSE "dump_rf"
    /\ UNCHANGED <<random_forest, xgboost, scaler, models_loaded, disk,
                   enable_ml_training, train_calls, train_n, train_labeled, report, pred>>

\* the path each dump step writes, the object it writes, the step after it
DumpFile == [dump_rf |-> "rf", dump_xgb |-> "xgb", dump_scaler |-> "scaler"]

DumpNext == [dump_rf |-> "dump_xgb", dump_xgb |-> "dump_scaler",
             dump_scaler |-> "return"]

DumpSteps == {"dump_rf", "dump_xgb", "dump_scaler"}

DumpObject(step) ==
    IF step = "dump_rf" THEN random_forest
    ELSE IF step = "dump_xgb" THEN xgboost
    ELSE scaler

\* joblib.dump(obj, path) completes
SaveDump ==
    /\ trainPc \in DumpSteps
    /\ disk' = [disk EXCEPT ![DumpFile[trainPc]] = Pickled(DumpObject(trainPc))]
    /\ trainPc' = DumpNext[trainPc]
    /\ UNCHANGED <<random_forest, xgboost, scaler, models_loaded,
                   enable_ml_training, train_calls, train_n, train_labeled, report, pred>>

\* joblib.dump raises: the file is untouched or left truncated; save_models
\* logs and returns False
SaveDumpFails ==
    /\ trainPc \in DumpSteps
    /\ \E f \in {disk[DumpFile[trainPc]], Corrupt} :
         disk' = [disk EXCEPT ![DumpFile[trainPc]] = f]
    /\ trainPc' = "return"
    /\ UNCHANGED <<random_forest, xgboost, scaler, models_loaded,
                   enable_ml_training, train_calls, train_n, train_labeled, report, pred>>

\* results = {"status": "success", ..., "models_saved": True}; return results
TrainReturn ==
    /\ trainPc = "return"
    /\ report' = Success
    /\ trainPc' = "idle"
    /\ UNCHANGED <<random_forest, xgboost, scaler, models_loaded, disk,
                   enable_ml_training, train_calls, train_n, train_labeled, pred>>

(* ---- predict_mode ---- *)
\* base_detector.predict_mode(trip_data) and the dictionary built around it
FallbackResult(trip, detail) ==
    IF BaseDetectorRaises(trip)
      THEN [NoResult EXCEPT !.outcome = "raised", !.source = "base_detector"]
      ELSE [NoResult EXCEPT !.outcome = "returned", !.source = "base_detector",
                            !.detail = detail]

\* "if not self.models_loaded:" and its return
NotLoadedResult(trip) == FallbackResult(trip, "Using fallback model")

\* an except clause that keeps the tag of the try block on what it returns
ExceptResult_Mutant(trip) ==
    [FallbackResult(trip, "Error") EXCEPT !.model_type = "ensemble_rf_xgb"]

\* the except clause of predict_mode
ExceptResult(trip) == FallbackResult(trip, "Error")

\* the return of the try block
EnsembleResult(p) ==
    [outcome |-> "returned", source |-> "ensemble", detail |-> "none",
     model_type |-> "ensemble_rf_xgb", scaler_of |-> p.scaled_by,
     rf_of |-> p.rf_proba, xgb_of |-> p.xgb_proba]

PredictCall ==
    /\ pred.pc \in {"idle", "done"}
    /\ \E trip \in TripRecords :
         pred' = IF ~models_loaded
                   THEN [IdlePred EXCEPT !.pc = "done", !.trip = trip,
                                         !.result = NotLoadedResult(trip)]
                   ELSE [IdlePred EXCEPT !.pc = "preprocess", !.trip = trip]
    /\ UNCHANGED <<random_forest, xgboost, scaler, models_loaded, disk,
                   enable_ml_training, train_calls, train_n, train_labeled, trainPc, report>>

\* what preprocess_data returns: the vector standardised by the scaler it
\* read, the unscaled vector when transform raised, zeros when the feature
\* step raised
Preprocess(trip, loaded, sc, transform_raises) ==
    IF FeatureStepRaises(trip)
      THEN [features |-> "zeros", scaled_by |-> None]
    ELSE IF ~loaded \/ ~sc.fitted \/ transform_raises
      THEN [features |-> "unscaled", scaled_by |-> None]
    ELSE [features |-> "scaled", scaled_by |-> sc.made_by]

\* features = self.preprocess_data(trip_data)
PredictPreprocess ==
    /\ pred.pc = "preprocess"
    /\ \E transform_raises \in BOOLEAN :
         LET f == Preprocess(pred.trip, models_loaded, scaler, transform_raises)
         IN  pred' = [pred EXCEPT !.pc = "rf", !.features = f.features,
                                  !.scaled_by = f.scaled_by]
    /\ UNCHANGED <<random_forest, xgboost, scaler, models_loaded, disk,
                   enable_ml_training, train_calls, train_n, train_labeled, trainPc, report>>

\* rf_proba = self.random_forest.predict_proba(features)[0]
PredictRf ==
    /\ pred.pc = "rf"
    /\ random_forest.fitted
    /\ pred' = [pred EXCEPT !.pc = "xgb", !.rf_proba = random_forest.made_by]
    /\ UNCHANGED <<random_forest, xgboost, scaler, models_loaded, disk,
                   enable_ml_training, train_calls, train_n, train_labeled, trainPc, report>>

\* xgb_proba = self.xgboost.predict_proba(features)[0]
PredictXgb ==
    /\ pred.pc = "xgb"
    /\ xgboost.fitted
    /\ pred' = [pred EXCEPT !.pc = "blend", !.xgb_proba = xgboost.made_by]
    /\ UNCHANGED <<random_forest, xgboost, scaler, models_loaded, disk,
                   enable_ml_training, train_calls, train_n, train_labeled, trainPc, report>>

\* blend, arg-max, result dictionary, return
PredictEnsemble ==
    /\ pred.pc = "blend"
    /\ pred' = [pred EXCEPT !.pc = "done", !.result = EnsembleResult(pred)]
    /\ UNCHANGED <<random_forest, xgboost, scaler, models_loaded, disk,
                   enable_ml_training, train_calls, train_n, train_labeled, trainPc, report>>

\* a statement of the try block raises (an unfitted or None estimator always
\* does, a fitted one may): control reaches the except clause
PredictModelRaises ==
    /\ pred.pc \in {"rf", "xgb", "blend"}
    /\ pred' = [pred EXCEPT !.pc = "done", !.result = ExceptResult(pred.trip)]
    /\ UNCHANGED <<random_forest, xgboost, scaler, models_loaded, disk,
                   enable_ml_training, train_calls, train_n, train_labeled, trainPc, report>>

BundleNext ==
    \/ (Restart /\ UNCHANGED <<segVars, scoreVars, ensVars, featVars, histVars, flowVars, tripVars>>)
    \/ (TrainCall /\ UNCHANGED <<segVars, scoreVars, ensVars, featVars, histVars, flowVars, tripVars>>)
    \/ (TrainSplit /\ UNCHANGED <<segVars, scoreVars, ensVars, featVars, histVars, flowVars, tripVars>>)
    \/ (TrainScalerNew /\ UNCHANGED <<segVars, scoreVars, ensVars, featVars, histVars, flowVars, tripVars>>)
    \/ (TrainScalerFit /\ UNCHANGED <<segVars, scoreVars, ensVars, featVars, histVars, flowVars, tripVars>>)
    \/ (TrainRfNew /\ UNCHANGED <<segVars, scoreVars, ensVars, featVars, histVars, flowVars, tripVars>>)
    \/ (TrainRfFit /\ UNCHANGED <<segVars, scoreVars, ensVars, featVars, histVars, flowVars, tripVars>>)
    \/ (TrainXgbNew /\ UNCHANGED <<segVars, scoreVars, ensVars, featVars, histVars, flowVars, tripVars>>)
    \/ (TrainXgbFit /\ UNCHANGED <<segVars, scoreVars, ensVars, featVars, histVars, flowVars, tripVars>>)
    \/ (TrainEval /\ UNCHANGED <<segVars, scoreVars, ensVars, featVars, histVars, flowVars, tripVars>>)
    \/ (TrainMark /\ UNCHANGED <<segVars, scoreVars, ensVars, featVars, histVars, flowVars, tripVars>>)
    \/ (TrainRaise /\ UNCHANGED <<segVars, scoreVars, ensVars, featVars, histVars, flowVars, tripVars>>)
    \/ (SaveCheck /\ UNCHANGED <<segVars, scoreVars, ensVars, featVars, histVars, flowVars, tripVars>>)
    \/ (SaveDump /\ UNCHANGED <<segVars, scoreVars, ensVars, featVars, histVars, flowVars, tripVars>>)
    \/ (SaveDumpFails /\ UNCHANGED <<segVars, scoreVars, ensVars, featVars, histVars, flowVars, tripVars>>)
    \/ (TrainReturn /\ UNCHANGED <<segVars, scoreVars, ensVars, featVars, histVars, flowVars, tripVars>>)
    \/ (PredictCall /\ UNCHANGED <<segVars, scoreVars, ensVars, featVars, histVars, flowVars, tripVars>>)
    \/ (PredictPreprocess /\ UNCHANGED <<segVars, scoreVars, ensVars, featVars, histVars, flowVars, tripVars>>)
    \/ (PredictRf /\ UNCHANGED <<segVars, scoreVars, ensVars, featVars, histVars, flowVars, tripVars>>)
    \/ (PredictXgb /\ UNCHANGED <<segVars, scoreVars, ensVars, featVars, histVars, flowVars, tripVars>>)
    \/ (PredictEnsemble /\ UNCHANGED <<segVars, scoreVars, ensVars, featVars, histVars, flowVars, tripVars>>)
    \/ (PredictModelRaises /\ UNCHANGED <<segVars, scoreVars, ensVars, featVars, histVars, flowVars, tripVars>>)

(***************************************************************************)
(* Part 3.  The rule-based scorers: ModeDetector.predict_mode (the         *)
(* fallback tier) and PurposePredictor.predict_purpose                     *)
(*                                                                         *)
(* Python floats are modelled as exact rationals in lowest terms.          *)
(***************************************************************************)
RECURSIVE GCD(_, _)
GCD(a, b) == IF b = 0 THEN a ELSE GCD(b, a % b)

\* n / d for d > 0
Rat(n, d) == LET g == GCD(Abs(n), d) IN [num |-> n \div g, den |-> d \div g]

Zero == Rat(0, 1)

One == Rat(1, 1)

\* products and sums cancel common factors before they multiply
RMul(a, b) ==
    LET x == Rat(a.num, b.den)
        y == Rat(b.num, a.den)
    IN  [num |-> x.num * y.num, den |-> x.den * y.den]

\* a / b for b # 0
RDiv(a, b) ==
    IF b.num > 0 THEN RMul(a, [num |-> b.den, den |-> b.num])
                 ELSE RMul(a, [num |-> -b.den, den |-> -b.num])

RAdd(a, b) ==
    LET g == GCD(a.den, b.den)
    IN  Rat(a.num * (b.den \div g) + b.num * (a.den \div g),
            (a.den \div g) * b.den)

RSub(a, b) == RAdd(a, [num |-> -b.num, den |-> b.den])

RLt(a, b) ==
    LET g == GCD(a.den, b.den)
    IN  a.num * (b.den \div g) < b.num * (a.den \div g)

RLe(a, b) ==
    LET g == GCD(a.den, b.den)
    IN  a.num * (b.den \div g) <= b.num * (a.den \div g)

\* max(a, b) and min(a, b) of Python
RMax(a, b) == IF RLt(a, b) THEN b ELSE a

RMin(a, b) == IF RLt(b, a) THEN b ELSE a

\* trip_data.get(key, default): the value under the key when the key is
\* present (None included), else the default
Get(d, key, default) == IF key \in d.keys THEN d[key] ELSE default

\* sum(scores.values()), the dictionary iterated in insertion order
RECURSIVE SumScores(_, _)
SumScores(order, scores) ==
    IF order = <<>> THEN Zero
    ELSE RAdd(scores[Head(order)], SumScores(Tail(order), scores))

\* max(scores, key=scores.get): the first key, in insertion order, whose
\* score no other key exceeds
ArgMax(order, scores) ==
    order[CHOOSE k \in 1..Len(order) :
            /\ \A j \in 1..Len(order) : RLe(scores[order[j]], scores[order[k]])
            /\ \A j \in 1..(k - 1) : RLt(scores[order[j]], scores[order[k]])]

\* a cap that forgets the upper limit
Clamp_Mutant(c, lo, hi) == RMax(c, lo)

\* confidence = min(confidence, hi); confidence = max(confidence, lo)
Clamp(c, lo, hi) == RMax(RMin(c, hi), lo)

\* what a call that raised leaves the caller with
Raised(labels) ==
    [outcome |-> "raised", label |-> "none", confidence |-> Zero,
     scores |-> [l \in labels |-> Zero]]

(* ---- ModeDetector ---- *)
\* keys of self.mode_probabilities, in insertion order
Modes == <<"walk", "cycle", "bike", "car", "bus", "metro">>

ModeSet == {Modes[k] : k \in 1..Len(Modes)}

min_speed == [walk |-> 0, cycle |-> 5, bike |-> 15, car |-> 10, bus |-> 5,
              metro |-> 20]

max_speed == [walk |-> 8, cycle |-> 25, bike |-> 60, car |-> 120, bus |-> 50,
              metro |-> 80]

base_prob == [walk |-> Rat(3, 10), cycle |-> Rat(1, 5), bike |-> Rat(1, 10),
              car |-> Rat(1, 4), bus |-> Rat(1, 10), metro |-> Rat(1, 20)]

\* (distance_km / duration_minutes) * 60 if duration_minutes > 0 else 0
avg_speed_kmh(distance_km, duration_minutes) ==
    IF RLt(Zero, duration_minutes)
      THEN RMul(RDiv(distance_km, duration_minutes), Rat(60, 1))
      ELSE Zero

\* the division by config['min_speed'] when that is 0: ZeroDivisionError
SpeedScoreRaises(mode, speed) ==
    /\ RLt(speed, Rat(min_speed[mode], 1))
    /\ min_speed[mode] = 0

speed_score(mode, speed) ==
    LET lo == Rat(min_speed[mode], 1)
        hi == Rat(max_speed[mode], 1)
    IN  IF RLe(lo, speed) /\ RLe(speed, hi) THEN One
        ELSE IF RLt(speed, lo)
          THEN RMax(Zero, RSub(One, RDiv(RSub(lo, speed), lo)))
          ELSE RMax(Zero, RSub(One, RDiv(RSub(speed, hi), hi)))

\* "# Distance-based adjustments"
DistanceAdjustment(mode, distance_km) ==
    IF mode = "walk" /\ RLt(Rat(5, 1), distance_km) THEN Rat(1, 10)
    ELSE IF mode = "cycle" /\ RLt(Rat(20, 1), distance_km) THEN Rat(3, 10)
    ELSE IF mode \in {"bus", "metro"} /\ RLt(distance_km, One) THEN Rat(1, 5)
    ELSE One

\* "# Time-based adjustments"
TimeAdjustment(mode, time_of_day) ==
    IF mode \in {"bus", "metro"}
      THEN IF (7 <= time_of_day /\ time_of_day <= 9)
                \/ (17 <= time_of_day /\ time_of_day <= 19) THEN Rat(3, 2)
           ELSE IF 22 <= time_of_day \/ time_of_day <= 5 THEN Rat(3, 10)
           ELSE One
      ELSE One

\* the score of one mode at the end of the first loop
ModeScore(mode, distance_km, speed, time_of_day) ==
    RMul(RMul(RMul(base_prob[mode], speed_score(mode, speed)),
              DistanceAdjustment(mode, distance_km)),
         TimeAdjustment(mode, time_of_day))

\* a jitter drawn from a wider interval
JitterChoices_Mutant == {Rat(1, 2), Rat(3, 2)}

\* random.uniform(0.8, 1.2): the two ends of the interval
JitterChoices == {Rat(4, 5), Rat(6, 5)}

\* the three fields predict_mode reads, after .get applied its defaults
ModeInputs(td) ==
    [distance_km |-> Get(td, "distance_km", Some(Zero)),
     duration_minutes |-> Get(td, "duration_minutes", Some(One)),
     time_of_day |-> Get(td, "time_of_day", Some(12))]

\* predict_mode raises: a None is compared or divided (TypeError), or the
\* speed is negative and the walk entry divides by its min_speed of 0
PredictModeRaises(td) ==
    LET args == ModeInputs(td)
    IN  \/ IsNull(args.distance_km)
        \/ IsNull(args.duration_minutes)
        \/ IsNull(args.time_of_day)
        \/ \E m \in ModeSet :
             SpeedScoreRaises(m, avg_speed_kmh(args.distance_km[1],
                                               args.duration_minutes[1]))

\* ModeDetector.predict_mode; jitter[m] is the number random.uniform returns
\* for mode m in this call
predict_mode(td, jitter) ==
    IF PredictModeRaises(td) THEN Raised(ModeSet)
    ELSE
      LET args == ModeInputs(td)
          speed == avg_speed_kmh(args.distance_km[1], args.duration_minutes[1])
          mode_scores ==
              [m \in ModeSet |->
                 RMul(ModeScore(m, args.distance_km[1], speed, args.time_of_day[1]),
                      jitter[m])]
          predicted_mode == ArgMax(Modes, mode_scores)
          total_score == SumScores(Modes, mode_scores)
          confidence == IF RLt(Zero, total_score)
                          THEN RDiv(mode_scores[predicted_mode], total_score)
                          ELSE Rat(1, 2)
      IN  [outcome |-> "returned", label |-> predicted_mode,
           confidence |-> Clamp(confidence, Rat(1, 10), Rat(19, 20)),
           scores |-> mode_scores]

\* AdvancedModeDetector.predict_mode around a fallback prediction:
\* "mode_probabilities": {mode: confidence}
FallbackProbabilities(r) == [m \in {r.label} |-> r.confidence]

\* the trip records handed to ModeDetector.predict_mode; a key that is not
\* in the dictionary has no value
ModeTrips ==
    { td \in
        { [NoTripData EXCEPT !.keys = ks, !.distance_km = d,
                             !.duration_minutes = t, !.time_of_day = h] :
            ks \in { {"distance_km", "duration_minutes", "time_of_day"},
                     {"distance_km", "duration_minutes"},
                     {"distance_km", "time_of_day"},
                     {"duration_minutes", "time_of_day"} },
            d \in {Null, Some(Rat(-1, 1)), Some(Zero), Some(Rat(1, 2)),
                   Some(Rat(6, 1)), Some(Rat(30, 1)), Some(Rat(500, 1))},
            t \in {Null, Some(Rat(-5, 1)), Some(Zero), Some(Rat(8, 1)),
                   Some(Rat(30, 1))},
            h \in {Null, Some(8), Some(12), Some(23)} } :
        \A key \in {"distance_km", "duration_minutes", "time_of_day"} :
            key \notin td.keys => IsNull(td[key]) }

PredictModeCall ==
    /\ scorer = "ModeDetector"
    /\ scorePc \in {"first", "second"}
    /\ \E jitter \in [ModeSet -> JitterChoices] :
         returned' = Append(returned, predict_mode(trip_data, jitter))
    /\ scorePc' = IF scorePc = "first" THEN "second" ELSE "done"
    /\ UNCHANGED <<scorer, trip_data>>

(* ---- PurposePredictor ---- *)
\* keys of purpose_scores in insertion order: the keys of self.time_patterns,
\* then other_purposes
Purposes == <<"work", "school", "shopping", "leisure", "social",
              "medical", "business", "exercise", "other">>

PurposeSet == {Purposes[k] : k \in 1..Len(Purposes)}

\* self.time_patterns; each low_hours list holds one span; weekend is the
\* weekend_boost or, without one, the weekend_penalty
time_patterns ==
    [work     |-> [peak_hours |-> {<<7, 9>>, <<17, 19>>}, low_hours |-> <<22, 6>>,
                   weekday_boost |-> Rat(3, 2), weekend |-> Rat(3, 10)],
     school   |-> [peak_hours |-> {<<7, 9>>, <<15, 17>>}, low_hours |-> <<19, 7>>,
                   weekday_boost |-> Rat(2, 1), weekend |-> Rat(1, 10)],
     shopping |-> [peak_hours |-> {<<10, 12>>, <<14, 18>>}, low_hours |-> <<0, 7>>,
                   weekday_boost |-> One, weekend |-> Rat(13, 10)],
     leisure  |-> [peak_hours |-> {<<10, 22>>}, low_hours |-> <<0, 8>>,
                   weekday_boost |-> Rat(4, 5), weekend |-> Rat(3, 2)],
     social   |-> [peak_hours |-> {<<18, 23>>}, low_hours |-> <<5, 10>>,
                   weekday_boost |-> One, weekend |-> Rat(7, 5)]]

TimedPurposes == DOMAIN time_patterns

\* keys of self.location_keywords in insertion order
KeywordPurposes == <<"work", "school", "shopping", "leisure", "social", "medical">>

\* an address is held as the number of keywords of each list that occur in
\* its lower-cased text
NoKeywords == [p \in {KeywordPurposes[k] : k \in 1..Len(KeywordPurposes)} |-> 0]

_calculate_time_score(purpose, start_time, weekday) ==
    IF IsNull(start_time) \/ purpose \notin TimedPurposes THEN Rat(1, 2)
    ELSE
      LET pattern == time_patterns[purpose]
          hour == start_time[1].hour
          peak == \E span \in pattern.peak_hours :
                     span[1] <= hour /\ hour <= span[2]
          low  == IF pattern.low_hours[1] > pattern.low_hours[2]
                    THEN hour >= pattern.low_hours[1] \/ hour <= pattern.low_hours[2]
                    ELSE pattern.low_hours[1] <= hour /\ hour <= pattern.low_hours[2]
          s1 == IF peak THEN One ELSE Rat(3, 10)
          s2 == IF low THEN RMul(s1, Rat(3, 10)) ELSE s1
      IN  IF weekday >= 5 THEN RMul(s2, pattern.weekend)
                          ELSE RMul(s2, pattern.weekday_boost)

\* the loop over the other keyword lists: score *= (1 - conflicts * 0.2)
RECURSIVE ConflictFactor(_, _, _)
ConflictFactor(order, purpose, dest_address) ==
    IF order = <<>> THEN One
    ELSE LET conflicts == dest_address[Head(order)]
             rest == ConflictFactor(Tail(order), purpose, dest_address)
         IN  IF Head(order) # purpose /\ conflicts > 0
               THEN RMul(Rat(5 - conflicts, 5), rest)
               ELSE rest

_calculate_location_score(purpose, dest_address) ==
    LET dest_matches == dest_address[purpose]
        own == IF dest_matches > 0 THEN Rat(2 + dest_matches, 2) ELSE One
    IN  RMax(RMul(own, ConflictFactor(KeywordPurposes, purpose, dest_address)),
             Rat(1, 10))

\* mode_preferences
mode_preferences ==
    [work     |-> [car |-> Rat(6, 5), bus |-> Rat(13, 10), metro |-> Rat(13, 10),
                   cycle |-> Rat(11, 10), walk |-> Rat(4, 5), taxi |-> Rat(9, 10)],
     school   |-> [bus |-> Rat(7, 5), metro |-> Rat(13, 10), cycle |-> Rat(6, 5),
                   walk |-> Rat(11, 10), car |-> Rat(4, 5), taxi |-> Rat(7, 10)],
     shopping |-> [car |-> Rat(13, 10), bus |-> Rat(11, 10), walk |-> Rat(6, 5),
                   taxi |-> Rat(11, 10), cycle |-> Rat(4, 5), metro |-> Rat(9, 10)],
     leisure  |-> [walk |-> Rat(6, 5), cycle |-> Rat(13, 10), car |-> Rat(11, 10),
                   taxi |-> One, bus |-> Rat(9, 10), metro |-> Rat(9, 10)],
     social   |-> [car |-> Rat(6, 5), taxi |-> Rat(13, 10), walk |-> Rat(11, 10),
                   bus |-> One, cycle |-> Rat(9, 10), metro |-> One]]

_calculate_mode_score(purpose, transport_mode) ==
    IF /\ purpose \in DOMAIN mode_preferences
       /\ ~IsNull(transport_mode)
       /\ transport_mode[1] \in DOMAIN mode_preferences[purpose]
      THEN mode_preferences[purpose][transport_mode[1]]
      ELSE One

\* a trip of user_history counts as similar when its hour is within 2 of the
\* current one, neither latitude is 0 and the destinations are within 500 m;
\* dest_lat is held as a place number, two places being far apart
_calculate_history_score(purpose, hour, dest_lat, user_history) ==
    LET similar_trips ==
            {k \in 1..Len(user_history) :
               /\ Abs(user_history[k].hour - hour) <= 2
               /\ dest_lat # 0
               /\ user_history[k].dest_lat # 0
               /\ user_history[k].dest_lat = dest_lat}
        count == Cardinality({k \in similar_trips :
                                user_history[k].purpose = purpose})
    IN  IF similar_trips = {} THEN One
        ELSE IF count > 0
          THEN RAdd(One, Rat(count, Cardinality(similar_trips)))
          ELSE Rat(4, 5)

\* random.uniform(0.7, 1.3): the two ends of the interval
PurposeJitterChoices == {Rat(7, 10), Rat(13, 10)}

\* predict_purpose raises: .lower() of a None address, .hour of a None
\* start_time in the history factor
PredictPurposeRaises(td) ==
    \/ IsNull(Get(td, "dest_address", Some(NoKeywords)))
    \/ (td.user_history # <<>> /\ IsNull(Get(td, "start_time", Null)))

\* PurposePredictor.predict_purpose(trip_data, user_history)
predict_purpose(td, jitter) ==
    IF PredictPurposeRaises(td) THEN Raised(PurposeSet)
    ELSE
      LET start_time == Get(td, "start_time", Null)
          weekday == IF IsNull(start_time) THEN 0 ELSE start_time[1].weekday
          dest_address == Get(td, "dest_address", Some(NoKeywords))[1]
          transport_mode == Get(td, "transport_mode", Some("walk"))
          rule(p) ==
              LET s == RMul(RMul(_calculate_time_score(p, start_time, weekday),
                                 _calculate_location_score(p, dest_address)),
                            _calculate_mode_score(p, transport_mode))
              IN  IF td.user_history # <<>>
                    THEN RMul(s, _calculate_history_score(
                                     p, start_time[1].hour, td.dest_lat,
                                     td.user_history))
                    ELSE s
          purpose_scores ==
              [p \in PurposeSet |->
                 RMul(IF p \in TimedPurposes THEN rule(p) ELSE Rat(1, 10),
                      jitter[p])]
          predicted_purpose == ArgMax(Purposes, purpose_scores)
          total_score == SumScores(Purposes, purpose_scores)
          confidence == IF RLt(Zero, total_score)
                          THEN RDiv(purpose_scores[predicted_purpose], total_score)
                          ELSE Rat(3, 10)
      IN  [outcome |-> "returned", label |-> predicted_purpose,
           confidence |-> Clamp(confidence, Rat(1, 5), Rat(9, 10)),
           scores |-> purpose_scores]

\* a trip of the user's history
HistoryTrip(hour, dest_lat, purpose) ==
    [hour |-> hour, dest_lat |-> dest_lat, purpose |-> purpose]

\* the records and histories handed to PurposePredictor.predict_purpose
PurposeTrips ==
    { td \in
        { [NoTripData EXCEPT !.keys = ks, !.start_time = st, !.dest_address = a,
                             !.transport_mode = tm, !.dest_lat = 1,
                             !.user_history = uh] :
            ks \in { {"start_time", "dest_address", "transport_mode"},
                     {"start_time", "transport_mode"},
                     {"start_time", "dest_address"} },
            st \in {Null, Some([hour |-> 8, weekday |-> 0]),
                    Some([hour |-> 20, weekday |-> 5])},
            a \in {Null, Some(NoKeywords), Some([NoKeywords EXCEPT !["work"] = 1]),
                   Some([NoKeywords EXCEPT !["shopping"] = 5])},
            tm \in {Null, Some("car")},
            uh \in {<<>>, <<HistoryTrip(9, 1, "work"), HistoryTrip(7, 1, "other"),
                            HistoryTrip(20, 2, "social")>>} } :
        \A key \in {"dest_address", "transport_mode"} :
            key \notin td.keys => IsNull(td[key]) }

PredictPurposeCall ==
    /\ scorer = "PurposePredictor"
    /\ scorePc = "first"
    /\ \E jitter \in [PurposeSet -> PurposeJitterChoices] :
         returned' = Append(returned, predict_purpose(trip_data, jitter))
    /\ scorePc' = "done"
    /\ UNCHANGED <<scorer, trip_data>>

Scorers == {"ModeDetector", "PurposePredictor"}

\* the state at the caller's first predict call on a record
ScoreInit ==
    /\ SegIdle
    /\ BundleIdle
    /\ EnsIdle
    /\ ServicesIdle
    /\ scorer \in Scorers
    /\ trip_data \in (IF scorer = "ModeDetector" THEN ModeTrips ELSE PurposeTrips)
    /\ scorePc = "first"
    /\ returned = <<>>

ScoreNext ==
    \/ (PredictModeCall /\ UNCHANGED <<segVars, bundleVars, ensVars, featVars, histVars, flowVars, tripVars>>)
    \/ (PredictPurposeCall /\ UNCHANGED <<segVars, bundleVars, ensVars, featVars, histVars, flowVars, tripVars>>)

(***************************************************************************)
(* Part 4.  The ensemble arithmetic of AdvancedModeDetector: the label     *)
(* train_models derives from a feature row's two probability vectors when  *)
(* it evaluates the ensemble, and the result predict_mode derives from the *)
(* same two vectors.  Probabilities are whole percents, blended values are *)
(* counted in 1/10000.                                                     *)
(***************************************************************************)
\* settings.ML_CONFIG['TRANSPORT_MODES'], read into self.transport_modes
transport_modes == <<"walk", "bike", "car", "bus", "metro", "train">>

\* labels a trip's transport_mode can carry, in the order np.unique sorts them
SortedLabels == <<"bike", "bus", "car", "cycle", "metro", "train", "walk">>

LabelSets == (SUBSET {SortedLabels[k] : k \in 1..Len(SortedLabels)}) \ {{}}

\* classes_ of an estimator fitted on y: the distinct labels of y, sorted
classes_of(y) == SelectSeq(SortedLabels, LAMBDA l : l \in y)

RECURSIVE SumTo(_, _)
SumTo(p, n) == IF n = 0 THEN 0 ELSE p[n] + SumTo(p, n - 1)

\* predict_proba(features)[0] of an estimator with n classes
Probas(n) == {p \in [1..n -> {0, 50, 100}] : SumTo(p, n) = 100}

\* 0.6 * rf_proba + 0.4 * xgb_proba
Blend(rf_proba, xgb_proba) ==
    [k \in DOMAIN rf_proba |-> 60 * rf_proba[k] + 40 * xgb_proba[k]]

\* np.argmax: the first position holding the largest value (position k here
\* is index k - 1 of the array)
NpArgMax(v) ==
    CHOOSE k \in DOMAIN v :
        /\ \A j \in DOMAIN v : v[j] <= v[k]
        /\ \A j \in 1..(k - 1) : v[j] < v[k]

\* train_models, "# Evaluate ensemble", for one row of X_test:
\* self.random_forest.classes_[np.argmax(proba)]
EnsembleEvaluation(classes_, rf_proba, xgb_proba) ==
    classes_[NpArgMax(Blend(rf_proba, xgb_proba))]

\* predict_mode from the blend to the return.  self.transport_modes[predicted_idx]
\* and ensemble_proba[idx] raise IndexError when the index is out of range;
\* the except clause then answers from the base detector
EnsembleInference(rf_proba, xgb_proba) ==
    LET ensemble_proba == Blend(rf_proba, xgb_proba)
        predicted_idx == NpArgMax(ensemble_proba)
    IN  IF \/ predicted_idx > Len(transport_modes)
           \/ Len(transport_modes) > Len(ensemble_proba)
          THEN [NoEnsembleResult EXCEPT !.source = "base_detector"]
          ELSE [source |-> "ensemble",
                predicted_mode |-> transport_modes[predicted_idx],
                confidence |-> ensemble_proba[predicted_idx],
                mode_probabilities |->
                    [idx \in 1..Len(transport_modes) |-> ensemble_proba[idx]]]

\* both estimators have been fitted on a training set
EnsembleInit ==
    /\ SegIdle
    /\ BundleIdle
    /\ ScoreIdle
    /\ ServicesIdle
    /\ ens \in {[IdleEns EXCEPT !.pc = "trained", !.classes_ = classes_of(y)] :
                  y \in LabelSets}

EnsembleEvaluate ==
    /\ ens.pc = "trained"
    /\ \E rf_proba \in Probas(Len(ens.classes_)),
          xgb_proba \in Probas(Len(ens.classes_)) :
         ens' = [ens EXCEPT !.pc = "evaluated",
                            !.rf_proba = rf_proba,
                            !.xgb_proba = xgb_proba,
                            !.ensemble_prediction =
                                EnsembleEvaluation(ens.classes_, rf_proba, xgb_proba)]

\* predict_mode, models loaded, on the row the evaluation saw
EnsemblePredict ==
    /\ ens.pc = "evaluated"
    /\ ens' = [ens EXCEPT !.pc = "done",
                          !.result = EnsembleInference(ens.rf_proba, ens.xgb_proba)]

EnsembleNext ==
    \/ (EnsembleEvaluate /\ UNCHANGED <<segVars, bundleVars, scoreVars, featVars, histVars, flowVars, tripVars>>)
    \/ (EnsemblePredict /\ UNCHANGED <<segVars, bundleVars, scoreVars, featVars, histVars, flowVars, tripVars>>)

(***************************************************************************)
(* Part 5.  Feature building: the feature loop of train_models, the        *)
(* preprocess_data of the same class, and the dictionary that              *)
(* TripCreateSerializer prepares for ModeDetector.predict_mode.  A feature *)
(* row is the sequence of the values of FeatureColumns, each an exact      *)
(* rational.                                                               *)
(***************************************************************************)
\* settings.ML_CONFIG['FEATURE_COLUMNS'], read into self.feature_columns
FeatureColumns ==
    <<"distance_km", "duration_minutes", "avg_speed", "max_speed",
      "stops_count", "direction_changes", "time_of_day", "day_of_week",
      "weather_temp", "weather_condition", "route_type">>

\* the table of _encode_weather_condition; a string that is no key gives 0
WeatherConditions ==
    [clear |-> 0, sunny |-> 0, partly_cloudy |-> 1, cloudy |-> 2,
     overcast |-> 2, mist |-> 3, fog |-> 3, drizzle |-> 4, rain |-> 5,
     heavy_rain |-> 6, thunderstorm |-> 7, snow |-> 8, sleet |-> 9,
     hail |-> 10]

_encode_weather_condition(condition) ==
    IF condition \in DOMAIN WeatherConditions THEN WeatherConditions[condition]
    ELSE 0

\* _calculate_bearing for two points of one meridian: 0 northwards and for
\* two equal points, 180 southwards
_calculate_bearing(point1, point2) ==
    IF point2.lat < point1.lat THEN 180 ELSE 0

\* the speed of one pair in km/h: distance_km / (seconds / 3600)
PairSpeed(prev_point, curr_point) ==
    Rat(Haversine(prev_point.lat, prev_point.lng,
                  curr_point.lat, curr_point.lng) * 18,
        5 * (curr_point.timestamp - prev_point.timestamp))

\* max(speeds)
MaxOf(speeds) == CHOOSE s \in speeds : \A t \in speeds : RLe(t, s)

\* AdvancedModeDetector.analyze_waypoints: the entries of its result that the
\* feature builders read, and the number of speeds it collected
analyze_waypoints(waypoints) ==
    IF Len(waypoints) < 2
      THEN [max_speed |-> Zero, stops_count |-> 0, direction_changes |-> 0,
            speeds |-> 0]
    ELSE
      LET timed == {k \in 2..Len(waypoints) :
                      waypoints[k].timestamp - waypoints[k-1].timestamp > 0}
          speeds == {PairSpeed(waypoints[k-1], waypoints[k]) : k \in timed}
          turn(k) ==
              LET angle_diff == Abs(_calculate_bearing(waypoints[k-1], waypoints[k])
                                    - _calculate_bearing(waypoints[k-2], waypoints[k-1]))
              IN  (IF angle_diff > 180 THEN 360 - angle_diff ELSE angle_diff) > 45
      IN  [max_speed |-> IF speeds = {} THEN Zero ELSE MaxOf(speeds),
           stops_count |->
               Cardinality({k \in timed :
                   RLt(PairSpeed(waypoints[k-1], waypoints[k]), One)}),
           direction_changes |->
               Cardinality({k \in 3..Len(waypoints) : turn(k)}),
           speeds |-> Cardinality(timed)]

\* "for feature in self.feature_columns: row.append(features.get(feature, 0))"
FeatureRow(features) ==
    [k \in 1..Len(FeatureColumns) |->
        IF FeatureColumns[k] \in DOMAIN features THEN features[FeatureColumns[k]]
        ELSE Zero]

\* trip.get(key, default) for a record whose values are stored as Some(v)
GetValue(trip, key, default) ==
    IF key \in trip.keys THEN trip[key][1] ELSE default

\* the entries the two builders compute alike from what they have stored
\* under 'avg_speed': movement, weather and route type
MovementWeatherRoute(trip, avg_speed) ==
    LET waypoints == GetValue(trip, "waypoints", <<>>)
        analysis  == analyze_waypoints(waypoints)
        weather   == GetValue(trip, "weather", Null)
    IN  [max_speed |-> IF waypoints # <<>> THEN analysis.max_speed
                       ELSE RMul(avg_speed, Rat(3, 2)),
         stops_count |-> IF waypoints # <<>> THEN Rat(analysis.stops_count, 1)
                         ELSE Zero,
         direction_changes |->
             IF waypoints # <<>> THEN Rat(analysis.direction_changes, 1)
             ELSE Zero,
         weather_temp |-> IF "weather" \notin trip.keys THEN Rat(20, 1)
                          ELSE Rat(weather.temperature, 1),
         weather_condition |->
             IF "weather" \notin trip.keys THEN Zero
             ELSE Rat(_encode_weather_condition(weather.condition), 1),
         route_type |-> Rat(GetValue(trip, "route_type", 0), 1)]

\* the feature loop of train_models on one trip that carries a label
TrainFeatures(trip) ==
    LET distance_km      == GetValue(trip, "distance_km", Zero)
        duration_minutes == GetValue(trip, "duration_minutes", Zero)
        avg_speed        == avg_speed_kmh(distance_km, duration_minutes)
        start_time       == GetValue(trip, "start_time", Null)
        rest             == MovementWeatherRoute(trip, avg_speed)
    IN  [distance_km |-> distance_km,
         duration_minutes |-> duration_minutes,
         avg_speed |-> avg_speed,
         max_speed |-> rest.max_speed,
         stops_count |-> rest.stops_count,
         direction_changes |-> rest.direction_changes,
         time_of_day |-> IF "start_time" \notin trip.keys THEN Rat(12, 1)
                         ELSE Rat(start_time.hour, 1),
         day_of_week |-> IF "start_time" \notin trip.keys THEN Zero
                         ELSE Rat(start_time.weekday, 1),
         weather_temp |-> rest.weather_temp,
         weather_condition |-> rest.weather_condition,
         route_type |-> rest.route_type]

\* preprocess_data up to the feature vector it hands to the scaler; the
\* entries that are no feature column (is_weekend, is_rush_hour, the
\* accelerations, is_precipitation) do not reach the vector
PreprocessFeatures(trip) ==
    LET distance_km      == GetValue(trip, "distance_km", Zero)
        duration_minutes == GetValue(trip, "duration_minutes", Zero)
        avg_speed        == avg_speed_kmh(distance_km, duration_minutes)
        start_time       == GetValue(trip, "start_time", Null)
        rest             == MovementWeatherRoute(trip, avg_speed)
    IN  [distance_km |-> distance_km,
         duration_minutes |-> duration_minutes,
         avg_speed |-> avg_speed,
         max_speed |-> rest.max_speed,
         stops_count |-> rest.stops_count,
         direction_changes |-> rest.direction_changes,
         time_of_day |-> IF "start_time" \notin trip.keys
                           THEN Rat(GetValue(trip, "time_of_day", 12), 1)
                         ELSE Rat(start_time.hour, 1),
         day_of_week |-> IF "start_time" \notin trip.keys THEN Zero
                         ELSE Rat(start_time.weekday, 1),
         weather_temp |-> rest.weather_temp,
         weather_condition |-> rest.weather_condition,
         route_type |-> rest.route_type]

\* the hours timezone.now() may show when the record has no start_time
NowHours == {3, 15}

\* TripCreateSerializer._prepare_trip_data_for_prediction: the entries that
\* ModeDetector.predict_mode reads.  "not duration_minutes" holds of None and
\* of 0, and so does the "or 10" of the returned dictionary.
_prepare_trip_data_for_prediction(trip, waypoints_data, now) ==
    LET given    == Get(trip, "duration_minutes", Null)
        falsy(d) == d \in {Null, Some(Zero)}
        duration_minutes ==
            IF falsy(given) /\ Len(waypoints_data) > 1
              THEN Some(Rat(waypoints_data[Len(waypoints_data)].timestamp
                              - waypoints_data[1].timestamp, 60))
            ELSE given
        start_time == GetValue(trip, "start_time", Null)
    IN  [keys |-> {"distance_km", "duration_minutes", "time_of_day"},
         distance_km |-> Some(GetValue(trip, "distance_km", Zero)),
         duration_minutes |-> Some(IF falsy(duration_minutes) THEN Rat(10, 1)
                                   ELSE duration_minutes),
         time_of_day |-> Some(IF "start_time" \notin trip.keys THEN now
                              ELSE start_time.hour)]

Waypoint(lat, timestamp) == [lat |-> lat, lng |-> 0, timestamp |-> timestamp]

\* waypoint lists of a record: none, one fix, one leg, a leg followed by a
\* fix with a repeated timestamp, a halt followed by a leg
WaypointLists ==
    { <<>>,
      <<Waypoint(0, 0)>>,
      <<Waypoint(0, 0), Waypoint(1000, 100)>>,
      <<Waypoint(0, 0), Waypoint(1000, 100), Waypoint(0, 100)>>,
      <<Waypoint(0, 0), Waypoint(0, 400), Waypoint(1000, 500)>> }

FeatureKeys ==
    {"distance_km", "duration_minutes", "start_time", "time_of_day",
     "waypoints", "weather", "route_type", "transport_mode"}

\* trip records; a key that is not in the dictionary has no value
FeatureTrips ==
    { [td EXCEPT !.keys = {key \in FeatureKeys : ~IsNull(td[key])}] :
        td \in
          { [keys |-> {}, distance_km |-> d, duration_minutes |-> t,
             start_time |-> st, time_of_day |-> h, waypoints |-> w,
             weather |-> we, route_type |-> rt, transport_mode |-> tm] :
              d \in {Null, Some(Rat(6, 1))},
              t \in {Null, Some(Zero), Some(Rat(30, 1))},
              st \in {Null, Some([hour |-> 8, weekday |-> 5])},
              h \in {Null, Some(8)},
              w \in {Null} \cup {Some(l) : l \in WaypointLists},
              we \in {Null, Some([temperature |-> 5, condition |-> "rain"])},
              rt \in {Null, Some(1)},
              tm \in {Null, Some("car")} } }

FeatureInit ==
    /\ SegIdle
    /\ BundleIdle
    /\ ScoreIdle
    /\ EnsIdle
    /\ HistIdle
    /\ FlowIdle
    /\ TripIdle
    /\ feature_trip \in FeatureTrips
    /\ featPc = {}
    /\ X = <<>>
    /\ feature_array = Null
    /\ prepared = Null

\* train_models([feature_trip]), lines 394-455: a trip without a
\* 'transport_mode' key is skipped
TrainFeatureLoop ==
    /\ "train_models" \notin featPc
    /\ featPc' = featPc \cup {"train_models"}
    /\ X' = IF "transport_mode" \in feature_trip.keys
              THEN <<FeatureRow(TrainFeatures(feature_trip))>>
            ELSE <<>>
    /\ UNCHANGED <<feature_trip, feature_array, prepared>>

\* preprocess_data(feature_trip) with no bundle loaded
PreprocessData ==
    /\ "preprocess_data" \notin featPc
    /\ featPc' = featPc \cup {"preprocess_data"}
    /\ feature_array' = Some(FeatureRow(PreprocessFeatures(feature_trip)))
    /\ UNCHANGED <<feature_trip, X, prepared>>

\* TripCreateSerializer.create preparing the dictionary of a posted trip
PrepareTripData ==
    /\ "prepare" \notin featPc
    /\ featPc' = featPc \cup {"prepare"}
    /\ \E now \in NowHours :
         prepared' = Some(_prepare_trip_data_for_prediction(
                              feature_trip,
                              GetValue(feature_trip, "waypoints", <<>>), now))
    /\ UNCHANGED <<feature_trip, X, feature_array>>

FeatureNext ==
    \/ (TrainFeatureLoop /\ UNCHANGED <<segVars, bundleVars, scoreVars, ensVars, histVars, flowVars, tripVars>>)
    \/ (PreprocessData /\ UNCHANGED <<segVars, bundleVars, scoreVars, ensVars, histVars, flowVars, tripVars>>)
    \/ (PrepareTripData /\ UNCHANGED <<segVars, bundleVars, scoreVars, ensVars, histVars, flowVars, tripVars>>)

(***************************************************************************)
(* Part 6.  The history factor of PurposePredictor as its callers use it:  *)
(* predict_trip_view, which builds user_history from the user's stored     *)
(* trips, and a caller that passes rows with the keys the factor reads.    *)
(***************************************************************************)
\* start hours of the current trip and of the stored trips
HistoryHours == {0, 8, 10, 11, 23}

\* destinations, as place numbers: two different places are far apart
Places == {1, 2}

\* most trips a user has stored
MaxStored == 2

\* a trip of the user in the database
StoredTrip(hour, place, purpose) ==
    [hour |-> hour, destination_latitude |-> place, purpose |-> purpose]

StoredTrips ==
    {StoredTrip(h, pl, pu) : h \in HistoryHours, pl \in Places,
                             pu \in {"work", "other"}}

StoredLists == UNION {[1..n -> StoredTrips] : n \in 0..MaxStored}

\* predict_trip_view: Trip.objects...values('start_time', 'purpose',
\* 'destination_latitude', 'destination_longitude').  The rows have no
\* 'dest_lat' key, so the factor's trip.get('dest_lat', 0) reads 0.
ViewHistoryRow(trip) == HistoryTrip(trip.hour, 0, trip.purpose)

\* a row with the keys start_time, purpose, dest_lat, dest_lng
DirectHistoryRow(trip) ==
    HistoryTrip(trip.hour, trip.destination_latitude, trip.purpose)

HistoryCallers == {"predict_trip_view", "direct"}

HistoryInit ==
    /\ SegIdle
    /\ BundleIdle
    /\ ScoreIdle
    /\ EnsIdle
    /\ FeatIdle
    /\ FlowIdle
    /\ TripIdle
    /\ hist \in {[IdleHist EXCEPT !.pc = "call", !.caller = c, !.start_hour = h,
                                  !.dest_lat = pl, !.stored = st] :
                   c \in HistoryCallers, h \in HistoryHours, pl \in Places,
                   st \in StoredLists}

\* predict_trip_view, lines 195-213, up to the call of predict_purpose
BuildHistoryInView ==
    /\ hist.pc = "call"
    /\ hist.caller = "predict_trip_view"
    /\ hist' = [hist EXCEPT !.pc = "history",
                            !.user_history =
                                [k \in 1..Len(hist.stored) |->
                                    ViewHistoryRow(hist.stored[k])]]

BuildHistoryDirect ==
    /\ hist.pc = "call"
    /\ hist.caller = "direct"
    /\ hist' = [hist EXCEPT !.pc = "history",
                            !.user_history =
                                [k \in 1..Len(hist.stored) |->
                                    DirectHistoryRow(hist.stored[k])]]

\* predict_purpose applying "if user_history:" and _calculate_history_score
\* to every purpose
HistoryFactor ==
    /\ hist.pc = "history"
    /\ hist' = [hist EXCEPT !.pc = "done",
                            !.factor =
                                [p \in PurposeSet |->
                                    IF hist.user_history = <<>> THEN One
                                    ELSE _calculate_history_score(
                                             p, hist.start_hour, hist.dest_lat,
                                             hist.user_history)]]

HistoryNext ==
    \/ (BuildHistoryInView
          /\ UNCHANGED <<segVars, bundleVars, scoreVars, ensVars, featVars, flowVars, tripVars>>)
    \/ (BuildHistoryDirect
          /\ UNCHANGED <<segVars, bundleVars, scoreVars, ensVars, featVars, flowVars, tripVars>>)
    \/ (HistoryFactor
          /\ UNCHANGED <<segVars, bundleVars, scoreVars, ensVars, featVars, flowVars, tripVars>>)

(***************************************************************************)
(* Part 7.  The two request handlers that predict both mode and purpose    *)
(* for one trip: predict_trip_view and TripCreateSerializer.create.        *)
(***************************************************************************)
FlowPaths == {"predict_trip_view", "create"}

\* the start_time of the request
FlowStartTime == [hour |-> 8, weekday |-> 0]

\* distance_km and duration_minutes of the request
FlowMeasures ==
    { [distance_km |-> Some(Rat(1, 2)), duration_minutes |-> Some(Rat(8, 1))],
      [distance_km |-> Some(Rat(30, 1)), duration_minutes |-> Some(Rat(30, 1))] }

\* validated_data of a posted trip may name a transport_mode and a purpose;
\* the prediction request has no such fields
FlowInit ==
    /\ SegIdle
    /\ BundleIdle
    /\ ScoreIdle
    /\ EnsIdle
    /\ FeatIdle
    /\ HistIdle
    /\ TripIdle
    /\ flow \in {[IdleFlow EXCEPT !.path = pa, !.pc = "request",
                                  !.given_mode = gm, !.given_purpose = gp,
                                  !.distance_km = me.distance_km,
                                  !.duration_minutes = me.duration_minutes] :
                   pa \in FlowPaths, gm \in {Null, Some("car")},
                   gp \in {Null, Some("work")}, me \in FlowMeasures}
    /\ flow.path = "predict_trip_view" =>
           IsNull(flow.given_mode) /\ IsNull(flow.given_purpose)

\* what a predictor call hands back to the handler
Prediction(r) == [label |-> r.label, confidence |-> r.confidence]

(* ---- predict_trip_view, lines 180-213 ---- *)
\* trip_data = {...}; mode_detector.predict_mode(trip_data)
ViewPredictMode ==
    /\ flow.path = "predict_trip_view"
    /\ flow.pc = "request"
    /\ LET td == [NoTripData EXCEPT
                    !.keys = {"distance_km", "duration_minutes", "time_of_day"},
                    !.distance_km = flow.distance_km,
                    !.duration_minutes = flow.duration_minutes,
                    !.time_of_day = Some(FlowStartTime.hour)]
       IN  \E jitter \in [ModeSet -> JitterChoices] :
             flow' = [flow EXCEPT !.pc = "purpose",
                                  !.trip_data = Some(td),
                                  !.mode = Some(Prediction(predict_mode(td, jitter))),
                                  !.calls = Append(@, "predict_mode")]

\* purpose_data = {..., 'transport_mode': predicted_mode}; the user's history;
\* purpose_predictor.predict_purpose(purpose_data, user_history)
ViewPredictPurpose ==
    /\ flow.path = "predict_trip_view"
    /\ flow.pc = "purpose"
    /\ \E stored \in {<<>>, <<StoredTrip(8, 1, "work")>>} :
         LET pd == [NoTripData EXCEPT
                      !.keys = {"start_time", "transport_mode"},
                      !.start_time = Some(FlowStartTime),
                      !.transport_mode = Some(flow.mode[1].label),
                      !.dest_lat = 1,
                      !.user_history = [k \in 1..Len(stored) |->
                                           ViewHistoryRow(stored[k])]]
         IN  \E jitter \in [PurposeSet -> PurposeJitterChoices] :
               flow' = [flow EXCEPT
                          !.pc = "done",
                          !.purpose_data = Some(pd),
                          !.purpose = Some(Prediction(predict_purpose(pd, jitter))),
                          !.calls = Append(@, "predict_purpose")]

(* ---- TripCreateSerializer.create, lines 45-73 ---- *)
\* "if not validated_data.get('transport_mode') or not validated_data.get('purpose')"
NeedsPrediction == IsNull(flow.given_mode) \/ IsNull(flow.given_purpose)

\* trip_data = self._prepare_trip_data_for_prediction(validated_data, ...):
\* its 'transport_mode' entry is validated_data.get('transport_mode') as it
\* is at this point
CreatePrepare ==
    /\ flow.path = "create"
    /\ flow.pc = "request"
    /\ flow' = IF NeedsPrediction
                 THEN [flow EXCEPT
                         !.pc = "mode",
                         !.trip_data =
                             Some([NoTripData EXCEPT
                                     !.keys = {"distance_km", "duration_minutes",
                                               "time_of_day", "start_time",
                                               "dest_address", "transport_mode"},
                                     !.distance_km = flow.distance_km,
                                     !.duration_minutes = flow.duration_minutes,
                                     !.time_of_day = Some(FlowStartTime.hour),
                                     !.start_time = Some(FlowStartTime),
                                     !.dest_address = Some(NoKeywords),
                                     !.transport_mode = flow.given_mode,
                                     !.dest_lat = 1])]
               ELSE [flow EXCEPT !.pc = "save"]

\* "if not validated_data.get('transport_mode'):" predict_mode(trip_data) and
\* validated_data['transport_mode'] = predicted_mode
CreatePredictMode ==
    /\ flow.path = "create"
    /\ flow.pc = "mode"
    /\ IF IsNull(flow.given_mode)
         THEN \E jitter \in [ModeSet -> JitterChoices] :
                flow' = [flow EXCEPT
                           !.pc = "purpose",
                           !.mode = Some(Prediction(predict_mode(flow.trip_data[1],
                                                                 jitter))),
                           !.calls = Append(@, "predict_mode")]
         ELSE flow' = [flow EXCEPT !.pc = "purpose"]

\* "if not validated_data.get('purpose'):" predict_purpose(trip_data), on the
\* dictionary prepared before the mode was predicted
CreatePredictPurpose ==
    /\ flow.path = "create"
    /\ flow.pc = "purpose"
    /\ IF IsNull(flow.given_purpose)
         THEN \E jitter \in [PurposeSet -> PurposeJitterChoices] :
                flow' = [flow EXCEPT
                           !.pc = "save",
                           !.purpose_data = flow.trip_data,
                           !.purpose = Some(Prediction(
                                          predict_purpose(flow.trip_data[1], jitter))),
                           !.calls = Append(@, "predict_purpose")]
         ELSE flow' = [flow EXCEPT !.pc = "save"]

\* Trip.objects.create(**validated_data)
CreateSave ==
    /\ flow.path = "create"
    /\ flow.pc = "save"
    /\ flow' = [flow EXCEPT
                  !.pc = "done",
                  !.saved =
                      Some([transport_mode |->
                                IF IsNull(flow.given_mode) /\ ~IsNull(flow.mode)
                                  THEN flow.mode[1].label
                                ELSE flow.given_mode[1],
                            purpose |->
                                IF IsNull(flow.given_purpose) /\ ~IsNull(flow.purpose)
                                  THEN flow.purpose[1].label
                                ELSE flow.given_purpose[1]])]

FlowNext ==
    \/ (ViewPredictMode
          /\ UNCHANGED <<segVars, bundleVars, scoreVars, ensVars, featVars, histVars, tripVars>>)
    \/ (ViewPredictPurpose
          /\ UNCHANGED <<segVars, bundleVars, scoreVars, ensVars, featVars, histVars, tripVars>>)
    \/ (CreatePrepare
          /\ UNCHANGED <<segVars, bundleVars, scoreVars, ensVars, featVars, histVars, tripVars>>)
    \/ (CreatePredictMode
          /\ UNCHANGED <<segVars, bundleVars, scoreVars, ensVars, featVars, histVars, tripVars>>)
    \/ (CreatePredictPurpose
          /\ UNCHANGED <<segVars, bundleVars, scoreVars, ensVars, featVars, histVars, tripVars>>)
    \/ (CreateSave
          /\ UNCHANGED <<segVars, bundleVars, scoreVars, ensVars, featVars, histVars, tripVars>>)

(***************************************************************************)
(* Part 8.  The endpoints that create and complete trips, for one user:    *)
(* start_trip_view, the POST of TripListCreateView, complete_trip_view.    *)
(* Every request runs in its own database transaction (ATOMIC_REQUESTS);   *)
(* a row a request writes is seen by the others from the step that writes  *)
(* it, which stands for the commit at the end of the request.              *)
(***************************************************************************)
Endpoints == {"start_trip_view", "TripListCreateView", "complete_trip_view"}

\* Trip.objects.filter(user=request.user, status='active')
ActiveTrips == {k \in 1..Len(trip_table) : trip_table[k].status = "active"}

\* a row as Trip.objects.create stores it when no status is given: the
\* default of the status field
NewTrip == [status |-> "active"]

Respond(r, code) == [requests[r] EXCEPT !.pc = "done", !.response = code]

TripInit ==
    /\ SegIdle
    /\ BundleIdle
    /\ ScoreIdle
    /\ EnsIdle
    /\ FeatIdle
    /\ HistIdle
    /\ FlowIdle
    /\ trip_table = <<>>
    /\ requests \in [Requests -> {[IdleRequest EXCEPT !.endpoint = e, !.pc = "new"] :
                                    e \in Endpoints}]

\* start_trip_view, lines 93-98: the test for an active trip
StartTripCheck(r) ==
    /\ requests[r].endpoint = "start_trip_view"
    /\ requests[r].pc = "new"
    /\ requests' = [requests EXCEPT ![r] =
                      IF ActiveTrips # {} THEN Respond(r, 400)
                      ELSE [requests[r] EXCEPT !.pc = "checked"]]
    /\ UNCHANGED trip_table

\* start_trip_view, lines 100-108: serializer.is_valid() and
\* serializer.save(status='active'); the database may refuse the write of a
\* transaction that read before another one wrote (500)
StartTripSave(r) ==
    /\ requests[r].endpoint = "start_trip_view"
    /\ requests[r].pc = "checked"
    /\ \E outcome \in {"invalid", "saved", "refused"} :
         /\ outcome = "refused" => Len(trip_table) > 0
         /\ trip_table' = IF outcome = "saved"
                            THEN Append(trip_table, [status |-> "active"])
                          ELSE trip_table
         /\ requests' = [requests EXCEPT ![r] =
                           Respond(r, IF outcome = "saved" THEN 201
                                      ELSE IF outcome = "invalid" THEN 400
                                      ELSE 500)]

\* POST on TripListCreateView: CreateModelMixin.create with
\* TripCreateSerializer, whose fields do not include status
ListCreate(r) ==
    /\ requests[r].endpoint = "TripListCreateView"
    /\ requests[r].pc = "new"
    /\ \E valid \in BOOLEAN :
         /\ trip_table' = IF valid THEN Append(trip_table, NewTrip) ELSE trip_table
         /\ requests' = [requests EXCEPT ![r] =
                           Respond(r, IF valid THEN 201 ELSE 400)]

\* complete_trip_view, lines 116-119: Trip.objects.get(id=trip_id, ...,
\* status='active')
CompleteGet(r) ==
    /\ requests[r].endpoint = "complete_trip_view"
    /\ requests[r].pc = "new"
    /\ \E trip_id \in Requests :
         requests' = [requests EXCEPT ![r] =
                        IF trip_id \in ActiveTrips
                          THEN [requests[r] EXCEPT !.pc = "loaded", !.trip = trip_id]
                        ELSE Respond(r, 404)]
    /\ UNCHANGED trip_table

\* complete_trip_view, lines 121-172: trip.status = 'completed'; trip.save()
CompleteSave(r) ==
    /\ requests[r].endpoint = "complete_trip_view"
    /\ requests[r].pc = "loaded"
    /\ \E valid \in BOOLEAN :
         /\ trip_table' = IF valid
                            THEN [trip_table EXCEPT ![requests[r].trip].status =
                                                       "completed"]
                          ELSE trip_table
         /\ requests' = [requests EXCEPT ![r] =
                           Respond(r, IF valid THEN 200 ELSE 400)]

TripNext ==
    \/ (\E r \in Requests : StartTripCheck(r)
          /\ UNCHANGED <<segVars, bundleVars, scoreVars, ensVars, featVars,
                         histVars, flowVars>>)
    \/ (\E r \in Requests : StartTripSave(r)
          /\ UNCHANGED <<segVars, bundleVars, scoreVars, ensVars, featVars,
                         histVars, flowVars>>)
    \/ (\E r \in Requests : ListCreate(r)
          /\ UNCHANGED <<segVars, bundleVars, scoreVars, ensVars, featVars,
                         histVars, flowVars>>)
    \/ (\E r \in Requests : CompleteGet(r)
          /\ UNCHANGED <<segVars, bundleVars, scoreVars, ensVars, featVars,
                         histVars, flowVars>>)
    \/ (\E r \in Requests : CompleteSave(r)
          /\ UNCHANGED <<segVars, bundleVars, scoreVars, ensVars, featVars,
                         histVars, flowVars>>)

SegSpec == SegInit /\ [][SegNext]_vars

BundleSpec == BundleInit /\ [][BundleNext]_vars

ScoreSpec == ScoreInit /\ [][ScoreNext]_vars

EnsembleSpec == EnsembleInit /\ [][EnsembleNext]_vars

FeatureSpec == FeatureInit /\ [][FeatureNext]_vars

HistorySpec == HistoryInit /\ [][HistoryNext]_vars

FlowSpec == FlowInit /\ [][FlowNext]_vars

TripSpec == TripInit /\ [][TripNext]_vars

(***************************************************************************)
(* Properties of detect_trip_segments (checked under SegSpec)              *)
(***************************************************************************)
\* the call returned after running the scan over the whole list
ScanDone == segPc = "done" /\ ~ShortCircuits

\* number of segments whose [start_idx, end_idx] contains index k
CoverCount(k) ==
    Cardinality({s \in 1..Len(segments) :
                   segments[s].start_idx <= k /\ k <= segments[s].end_idx})

\* C1: for every list of at least two waypoints and every min_stop_duration
\* the returned segments are ordered by index, do not overlap, and every
\* index 0 .. len-1 of the input lies in exactly one segment.
C1_SegmentsPartitionInput ==
    (segPc = "done" /\ n_waypoints >= MinWaypointsBasic) =>
        /\ \A s \in 1..(Len(segments) - 1) :
              segments[s].end_idx < segments[s+1].start_idx
        /\ \A k \in 0..(n_waypoints - 1) : CoverCount(k) = 1

\* code indices j of the pairs (waypoints[j-1], waypoints[j]) slower than 1 km/h
StopPairs ==
    {j \in 1..(Len(wps) - 1) :
        SlowerThan1Kmh(Haversine(wps[j].lat, wps[j].lng, wps[j+1].lat, wps[j+1].lng),
                       wps[j+1].timestamp - wps[j].timestamp)}

FirstStopPair == CHOOSE j \in StopPairs : \A k \in StopPairs : j <= k

LastStopPair == CHOOSE j \in StopPairs : \A k \in StopPairs : k <= j

\* timestamps strictly increase; the slow pairs form one run; the first and
\* the last pair of the list are movement
OneStopFlankedByMovement ==
    /\ \A j \in 1..(Len(wps) - 1) : wps[j+1].timestamp > wps[j].timestamp
    /\ StopPairs # {}
    /\ \A j \in FirstStopPair..LastStopPair : j \in StopPairs
    /\ 1 \notin StopPairs
    /\ (Len(wps) - 1) \notin StopPairs

\* seconds from the waypoint where the stop begins to the last stopped waypoint
StopLasts == wps[LastStopPair + 1].timestamp - wps[FirstStopPair].timestamp

\* C2: with min_stop_duration = 300 and a scanned list holding exactly one stop
\* flanked by movement, a 400 s stop gives exactly two segments split at the
\* stop boundary and a 100 s stop gives exactly one segment.
C2_OneStopSplitsAt400NotAt100 ==
    (ScanDone /\ min_stop_duration = DefaultMinStopDuration
              /\ OneStopFlankedByMovement) =>
        /\ StopLasts = 400 =>
             segments = <<Segment(0, LastStopPair),
                          Segment(LastStopPair + 1, n_waypoints - 1)>>
        /\ StopLasts = 100 => segments = <<Segment(0, n_waypoints - 1)>>

\* C3: when the scan ends, the open segment [current_segment_start, len-1] is
\* the last segment returned, also when it holds a single waypoint.
C3_FinalSegmentEmitted ==
    ScanDone =>
        /\ Len(segments) >= 1
        /\ segments[Len(segments)] = Segment(current_segment_start, n_waypoints - 1)

(***************************************************************************)
(* Properties of the model bundle (checked under BundleSpec)               *)
(***************************************************************************)
\* C4: every ensemble prediction used a scaler, a random forest and an xgboost
\* model constructed by the same training run (all old or all new).
C4_PredictionUsesOneBundle ==
    (pred.pc = "done" /\ pred.result.source = "ensemble") =>
        /\ pred.result.rf_of = pred.result.xgb_of
        /\ pred.result.scaler_of # None => pred.result.scaler_of = pred.result.rf_of

\* some field of the detector holds an object constructed by call c
HoldsObjectOf(c) ==
    \/ scaler.made_by = c
    \/ random_forest.made_by = c
    \/ xgboost.made_by = c

\* C5: once train_models has returned a report that is not a success, the
\* detector holds no object that this call constructed: scaler and models are
\* the ones from before the call.
C5_FailedTrainingLeavesBundle ==
    (trainPc = "idle" /\ report.status \in {"error", "skipped"}) =>
        ~HoldsObjectOf(train_calls)

\* C6: a train_models call with fewer than 50 samples returns status "skipped".
C6_SmallTrainingSetSkipped ==
    (trainPc = "idle" /\ report.status # "none" /\ train_n < MinTrainingSamples) =>
        report.status = "skipped"

\* C7: a train_models call with fewer than 50 samples returns at once with a
\* report that is not a success and changes none of scaler, random_forest,
\* xgboost, models_loaded; so the tier of later predictions is the tier from
\* before the call.
C7_SmallTrainingSetLeavesBundle ==
    [][ (train_calls' # train_calls /\ train_n' < MinTrainingSamples) =>
          /\ trainPc' = "idle"
          /\ report'.status \in {"skipped", "error"}
          /\ UNCHANGED <<scaler, random_forest, xgboost, models_loaded>> ]_vars

C7_Witness ==
    /\ train_n = 10
    /\ report = ErrorNotEnough
    /\ trainPc = "idle"
    /\ pred.pc = "done"
    /\ pred.result.detail = "Using fallback model"

\* the detector serves predictions from the bundle its latest training call built
NewBundleActive ==
    /\ train_calls >= 1
    /\ models_loaded
    /\ trainPc \in {"save_check", "dump_rf", "dump_xgb", "dump_scaler", "return", "idle"}
    /\ report.status \in {"none", "success"}
    /\ \A o \in {scaler, random_forest, xgboost} :
         o.made_by = train_calls /\ o.fitted

\* the three files hold exactly the objects of the detector
BundleOnDisk ==
    /\ disk["rf"] = Pickled(random_forest)
    /\ disk["xgb"] = Pickled(xgboost)
    /\ disk["scaler"] = Pickled(scaler)

\* C8: whenever the bundle built by the latest training call is active
\* (models_loaded set for it), its three artifacts have been written to disk.
C8_SavedBeforeActive == NewBundleActive => BundleOnDisk

AllReadable(d) == \A f \in Files : Readable(d[f])

\* C10: construction never leaves models_loaded set when one of the three
\* artifacts is absent or unreadable (at the first start and at every
\* restart); models_loaded turns on only by reading three readable artifacts
\* or by the models_loaded statement of a training run that passed its fits
\* and evaluation; and every predict_mode call that finds models_loaded unset
\* ends at once in the fallback tier, whose result carries "Using fallback
\* model" and no ensemble model_type.
C10_MissingArtifactsSelectFallback ==
    /\ [](train_calls = 0 => (models_loaded <=> AllReadable(disk)))
    /\ [][ /\ Restart => (models_loaded' <=> AllReadable(disk))
           /\ (~models_loaded /\ models_loaded') =>
                \/ TrainMark
                \/ (Restart /\ AllReadable(disk))
           /\ (PredictCall /\ ~models_loaded) =>
                /\ pred'.pc = "done"
                /\ pred'.result.source = "base_detector"
                /\ pred'.result.model_type = "none"
                /\ pred'.result.outcome = "returned" =>
                     pred'.result.detail = "Using fallback model" ]_vars

C10_Witness ==
    /\ \E f \in Files : ~Readable(disk[f])
    /\ \E f \in Files : Exists(disk[f])
    /\ ~models_loaded
    /\ report.status = "error"
    /\ pred.pc = "done"
    /\ pred.result.outcome = "returned"
    /\ pred.result.detail = "Using fallback model"

(***************************************************************************)
(* Properties of prediction results                                        *)
(***************************************************************************)
\* C11: every predict_mode call, on every trip record and with the models
\* loaded or not, ends by returning a (mode, confidence) result; none ends by
\* raising to its caller.  (checked under BundleSpec)
C11_PredictModeNeverRaises ==
    pred.pc = "done" => pred.result.outcome = "returned"

\* the results ModeDetector.predict_mode returned for trip_data so far
FallbackResults ==
    {returned[k] : k \in {j \in 1..Len(returned) :
                            scorer = "ModeDetector"
                            /\ returned[j].outcome = "returned"}}

\* C12: the values of the mode_probabilities dictionary that goes with a
\* fallback prediction sum to 1.  (checked under ScoreSpec)
C12_ModeProbabilitiesSumToOne ==
    \A r \in FallbackResults :
        SumScores(<<r.label>>, FallbackProbabilities(r)) = One

\* the results of either scorer returned so far
Results ==
    {returned[k] : k \in {j \in 1..Len(returned) :
                            returned[j].outcome = "returned"}}

LabelOrder == IF scorer = "ModeDetector" THEN Modes ELSE Purposes

ConfidenceFloor == IF scorer = "ModeDetector" THEN Rat(1, 10) ELSE Rat(1, 5)

ConfidenceCap == IF scorer = "ModeDetector" THEN Rat(19, 20) ELSE Rat(9, 10)

C14_FallbackDeterministic ==
    (scorer = "ModeDetector" /\ scorePc = "done") =>
        /\ returned[1].outcome = returned[2].outcome
        /\ returned[1].label = returned[2].label
        /\ returned[1].confidence = returned[2].confidence

\* distance_km = 0.5 and duration_minutes = 8
IsHalfKmInEightMinutes(td) ==
    /\ ~PredictModeRaises(td)
    /\ ModeInputs(td).distance_km[1] = Rat(1, 2)
    /\ ModeInputs(td).duration_minutes[1] = Rat(8, 1)

\* C15: for distance_km = 0.5 and duration_minutes = 8 the average speed is
\* 3.75 km/h and every ModeDetector.predict_mode call returns walk, whatever
\* the jitter drawn for the six scores.  (checked under ScoreSpec)
C15_HalfKmInEightMinutesIsWalk ==
    (scorer = "ModeDetector" /\ IsHalfKmInEightMinutes(trip_data)) =>
        /\ avg_speed_kmh(Rat(1, 2), Rat(8, 1)) = Rat(15, 4)
        /\ \A r \in FallbackResults : r.label = "walk"

\* both calls returned, the first with walk jittered down and cycle jittered up
C15_Witness ==
    /\ scorer = "ModeDetector"
    /\ IsHalfKmInEightMinutes(trip_data)
    /\ scorePc = "done"
    /\ returned[1].scores["walk"] = Rat(6, 25)
    /\ returned[1].scores["cycle"] = Rat(9, 50)
    /\ returned[1].label = "walk"
    /\ returned[2].label = "walk"

(***************************************************************************)
(* Further properties of detect_trip_segments (checked under SegSpec)      *)
(***************************************************************************)
\* C16: AdvancedModeDetector.detect_trip_segments on fewer than 10 waypoints
\* returns exactly one segment, with start_idx 0, end_idx len - 1, the whole
\* input as its waypoints and predicted_mode None; it looks at no waypoint
\* pair and classifies nothing.
C16_FewWaypointsGiveOneUnclassifiedSegment ==
    (segPc = "done" /\ impl = "AdvancedModeDetector"
                    /\ n_waypoints < MinWaypointsAdvanced) =>
        /\ segments = <<Segment(0, n_waypoints - 1)>>
        /\ seg_fields = <<[waypoints |-> Slice(0, n_waypoints),
                           predicted_mode |-> "None"]>>
        /\ i = 1
        /\ Len(wps) <= 1

C16_Witness ==
    /\ segPc = "done"
    /\ impl = "AdvancedModeDetector"
    /\ n_waypoints = MinWaypointsAdvanced - 1
    /\ Len(segments) = 1
    /\ segments[1].end_idx = n_waypoints - 1
    /\ seg_fields[1].predicted_mode = "None"

\* C17: every returned segment has end_idx >= start_idx, for every input,
\* the empty list included.
C17_SegmentEndNotBeforeStart ==
    segPc = "done" =>
        \A s \in 1..Len(segments) : segments[s].end_idx >= segments[s].start_idx

\* the loop turn in which the segmenter leaves STOPPED: waypoints[i] is the
\* first waypoint reached by movement after the stop, waypoints[i-1] the last
\* waypoint before it
LeavesStopped == in_stop /\ ~in_stop'

\* seconds the stop lasted, from the waypoint where it began to waypoints[i-1]
StopLength == wps[i].timestamp - stop_start_time

C19_StopMeasuredToMovingWaypoint ==
    [][ /\ (~in_stop /\ in_stop') => stop_start_time' # None
        /\ LeavesStopped =>
             ((current_segment_start' = i) <=>
                (wps'[i+1].timestamp - stop_start_time >= min_stop_duration)) ]_vars

\* C19 amended: entering STOPPED records as stop_start_time the timestamp of
\* the earlier waypoint of the slow pair; leaving STOPPED at waypoints[i], the
\* segmenter splits exactly when the time from stop_start_time to the
\* timestamp of waypoints[i-1], the waypoint before the one at which movement
\* is observed again, is at least min_stop_duration.
C19_StopMeasuredToLastStoppedWaypoint ==
    [][ /\ (~in_stop /\ in_stop') => stop_start_time' = wps[i].timestamp
        /\ LeavesStopped =>
             ((current_segment_start' = i) <=>
                (wps[i].timestamp - stop_start_time >= min_stop_duration)) ]_vars

\* a 100 s stop followed by a 400 s movement pair, min_stop_duration 300: no
\* split, though 500 s passed between the stop's start and the moving waypoint
C19_Witness ==
    /\ segPc = "loop"
    /\ i >= 4
    /\ min_stop_duration = DefaultMinStopDuration
    /\ ~in_stop
    /\ segments = <<>>
    /\ current_segment_start = 0
    /\ (i - 2) \in StopPairs
    /\ (i - 3) \notin StopPairs
    /\ (i - 1) \notin StopPairs
    /\ wps[i-1].timestamp - wps[i-2].timestamp < min_stop_duration
    /\ wps[i].timestamp - wps[i-2].timestamp >= min_stop_duration

(***************************************************************************)
(* Properties of the ensemble arithmetic (checked under EnsembleSpec)      *)
(***************************************************************************)
\* C20: for every label set of the training data, the mode an ensemble
\* prediction returns for a feature row is the label the training-time
\* evaluation derives from the same two probability vectors (the class the
\* blend rates highest), and its confidence is the blend's value for it.
C20_InferenceLabelMatchesTraining ==
    (ens.pc = "done" /\ ens.result.source = "ensemble") =>
        /\ ens.result.predicted_mode = ens.ensemble_prediction
        /\ ens.result.confidence =
             Blend(ens.rf_proba, ens.xgb_proba)[NpArgMax(Blend(ens.rf_proba,
                                                               ens.xgb_proba))]

(***************************************************************************)
(* Properties of feature building (checked under FeatureSpec)              *)
(***************************************************************************)
\* the entry of a feature row that belongs to the named column
Column(row, name) ==
    row[CHOOSE k \in 1..Len(FeatureColumns) : FeatureColumns[k] = name]

\* C21: for every trip record that carries a label, the unscaled feature row
\* train_models derives for it equals the unscaled vector preprocess_data
\* derives for the same record: the same values in the same order.
C21_TrainingRowEqualsInferenceRow ==
    ({"train_models", "preprocess_data"} \subseteq featPc /\ X # <<>>) =>
        X[1] = feature_array[1]

\* duration of a waypoint list in minutes, first fix to last fix
WaypointDuration(waypoints) ==
    Rat(waypoints[Len(waypoints)].timestamp - waypoints[1].timestamp, 60)

\* C24: for a trip record without duration_minutes the feature vector holds
\* as duration_minutes the duration computed from the waypoints when the
\* record has at least 2 waypoints and 10 otherwise, and as avg_speed
\* (distance_km / duration_minutes) * 60 computed from that duration.
C24_MissingDurationTakenFromWaypoints ==
    ("preprocess_data" \in featPc /\ "duration_minutes" \notin feature_trip.keys) =>
        LET waypoints == GetValue(feature_trip, "waypoints", <<>>)
            duration_minutes == IF Len(waypoints) >= 2
                                  THEN WaypointDuration(waypoints)
                                ELSE Rat(10, 1)
        IN  /\ Column(feature_array[1], "duration_minutes") = duration_minutes
            /\ Column(feature_array[1], "avg_speed") =
                 avg_speed_kmh(GetValue(feature_trip, "distance_km", Zero),
                               duration_minutes)

(***************************************************************************)
(* Properties of training and persistence, continued (BundleSpec)          *)
(***************************************************************************)
\* C22: when the training set of the latest train_models call holds fewer
\* than 50 labeled trips, whatever its length, the detector holds no scaler
\* and no model that this call constructed.
C22_FewLabeledSamplesLeaveBundle ==
    (train_calls >= 1 /\ train_labeled < MinTrainingSamples) =>
        ~HoldsObjectOf(train_calls)

(***************************************************************************)
(* Properties of detect_trip_segments, continued (SegSpec)                 *)
(***************************************************************************)
\* C23: a loop turn whose pair of waypoints has an elapsed time of 0 or less
\* leaves the segmenter's state alone: in_stop and stop_start_time keep their
\* values, no segment is appended and the current segment start stays.
C23_PairWithoutElapsedTimeSkipped ==
    [][ (/\ segPc = "loop"
         /\ i' = i + 1
         /\ wps'[i + 1].timestamp - wps[i].timestamp <= 0) =>
          UNCHANGED <<in_stop, stop_start_time, segments,
                      current_segment_start>> ]_vars

(***************************************************************************)
(* Properties of the history factor (checked under HistorySpec)            *)
(***************************************************************************)
\* hours between two hours of the day
HoursApart(a, b) == IF Abs(a - b) <= 12 THEN Abs(a - b) ELSE 24 - Abs(a - b)

\* the stored trips that start within 2 hours of the current trip's start
\* hour and end within 500 m of its destination
SimilarStored ==
    {k \in 1..Len(hist.stored) :
       /\ HoursApart(hist.stored[k].hour, hist.start_hour) <= 2
       /\ hist.stored[k].destination_latitude = hist.dest_lat}

\* C25: the history factor of a candidate purpose is 1 + the purpose's
\* relative frequency among the similar trips of the user's history, 0.8 when
\* there are similar trips and none has the purpose, and 1.0 when no trip is
\* similar; a trip is similar iff its start hour is within 2 hours of the
\* current start hour and its destination within 500 m of the current one.
C25_HistoryFactorFromSimilarTrips ==
    hist.pc = "done" =>
        \A p \in PurposeSet :
            LET count == Cardinality({k \in SimilarStored :
                                        hist.stored[k].purpose = p})
            IN  hist.factor[p] =
                  IF SimilarStored = {} THEN One
                  ELSE IF count > 0
                    THEN RAdd(One, Rat(count, Cardinality(SimilarStored)))
                  ELSE Rat(4, 5)

(***************************************************************************)
(* Properties of the request handlers (checked under FlowSpec)             *)
(***************************************************************************)
\* C26: whenever a handler has predicted both the mode and the purpose of a
\* trip, predict_mode ran before predict_purpose and the dictionary given to
\* predict_purpose holds under 'transport_mode' the mode that predict_mode
\* returned; on the prediction endpoint and on trip creation.
C26_PurposeReceivesPredictedMode ==
    (~IsNull(flow.mode) /\ ~IsNull(flow.purpose)) =>
        /\ flow.calls = <<"predict_mode", "predict_purpose">>
        /\ "transport_mode" \in flow.purpose_data[1].keys
        /\ flow.purpose_data[1].transport_mode = Some(flow.mode[1].label)

\* C27: a process that starts after any sequence of trainings and saves,
\* a failed save and a crash between two artifact writes included, either
\* comes up in the fallback tier or holds a scaler and two models that one
\* training run produced.
C27_LoadedBundleFromOneRun ==
    [][ (Restart /\ models_loaded') =>
          /\ random_forest'.made_by = xgboost'.made_by
          /\ xgboost'.made_by = scaler'.made_by ]_vars

(***************************************************************************)
(* Further properties of the rule-based scorers (checked under ScoreSpec)  *)
(***************************************************************************)
\* settings.ML_CONFIG['TRANSPORT_MODES'] as a set
TransportModeSet == {transport_modes[k] : k \in 1..Len(transport_modes)}

\* C28: every mode that ModeDetector.predict_mode returns is one of the
\* configured TRANSPORT_MODES, the labels the ensemble tier predicts over.
C28_FallbackModeIsConfiguredMode ==
    \A r \in FallbackResults : r.label \in TransportModeSet

\* C29: the mode ModeDetector.predict_mode returns has a score above 0, and
\* the confidence returned with it is that score divided by the total of the
\* six scores, clamped to [0.1, 0.95]; for every distance, duration and hour.
C29_ReturnedModeHasPositiveScore ==
    \A r \in FallbackResults :
        /\ RLt(Zero, r.scores[r.label])
        /\ r.confidence = Clamp(RDiv(r.scores[r.label],
                                     SumScores(Modes, r.scores)),
                                Rat(1, 10), Rat(19, 20))

(***************************************************************************)
(* Properties of the trip endpoints (checked under TripSpec)               *)
(***************************************************************************)
\* C30: under every interleaving of the user's start-trip, list-create and
\* complete-trip requests, the user has at most one trip with status
\* 'active'.
C30_AtMostOneActiveTrip == Cardinality(ActiveTrips) <= 1

====
